---------------------------- MODULE Spec2Model ----------------------------
(***************************************************************************)
(* A model of the document chunker of mcp-markdown-rag                     *)
(* (internal/rag: EstimateTokenCount, ExtractHeadings, GetHeadingContext,  *)
(* FindBestSplitPoint, ChunkDocument).                                     *)
(*                                                                         *)
(* A Go string is modelled as a sequence of one-character strings; Go      *)
(* offsets are 0-based, so text[i] of the source is At(text, i) here and   *)
(* text[a:b] is Slice(text, a, b).  approxTokensPerChar (a float64) is a   *)
(* pair <<num, den>> of a dyadic ratio, for which the float64 arithmetic   *)
(* of the source is exact.                                                 *)
(***************************************************************************)
EXTENDS Integers, Sequences, FiniteSets, TLC

(***************************************************************************)
(* Bounds of the model.                                                    *)
(***************************************************************************)
\* Longest document drawn exhaustively over Alphabet.
MaxLen == 4
\* The loop of ChunkDocument gives up once chunkIndex exceeds this cap.  The
\* source's cap is 1000 (lister.go:790); the model scales it down so that a
\* run that reaches the cap stays small.
ChunkCap == 3
\* Loop iterations followed per invocation (only a loop that makes no
\* progress at all reaches it).
MaxIters == 12

(***************************************************************************)
(* Program constants.                                                      *)
(***************************************************************************)
SentenceWindow == 200
ParagraphWindow == 300
LineWindow == 100
WordWindow == 50
MaxHeadingLevel == 6
NoHeadingLevel == 7

NL == "\n"
SP == " "

Alphabet == {"a", SP, ".", NL, "#"}

\* unicode.IsSpace, restricted to the characters a document can hold here
IsSpace(c) == c \in {SP, NL, "\t", "\r"}

Min(a, b) == IF a < b THEN a ELSE b

Max(a, b) == IF a > b THEN a ELSE b

MaxOf(S) == CHOOSE x \in S : \A y \in S : y <= x

\* text[i], 0-based
At(text, i) == text[i + 1]

\* text[a:b], 0-based and half-open
Slice(text, a, b) == SubSeq(text, a + 1, b)

MinOf(S) == CHOOSE x \in S : \A y \in S : x <= y

\* strings.TrimLeftFunc(s, unicode.IsSpace)
TrimLeft(s) ==
    LET N == {i \in 1..Len(s) : ~IsSpace(s[i])}
    IN  IF N = {} THEN <<>> ELSE SubSeq(s, MinOf(N), Len(s))

\* strings.TrimRightFunc(s, unicode.IsSpace)
TrimRight(s) ==
    LET N == {i \in 1..Len(s) : ~IsSpace(s[i])}
    IN  IF N = {} THEN <<>> ELSE SubSeq(s, 1, MaxOf(N))

\* strings.TrimSpace
TrimSpace(s) == TrimRight(TrimLeft(s))

(***************************************************************************)
(* Characters: code points, case, UTF-8                                    *)
(***************************************************************************)
\* the printable ASCII characters, from code 32 (the space) to code 126 (the
\* grave accent, code 96, by its name)
Printable ==
    <<" ", "!", "\"", "#", "$", "%", "&", "'", "(", ")", "*", "+", ",",
      "-", ".", "/", "0", "1", "2", "3", "4", "5", "6", "7", "8", "9",
      ":", ";", "<", "=", ">", "?", "@", "A", "B", "C", "D", "E", "F",
      "G", "H", "I", "J", "K", "L", "M", "N", "O", "P", "Q", "R", "S",
      "T", "U", "V", "W", "X", "Y", "Z", "[", "\\", "]", "^", "_", "grave",
      "a", "b", "c", "d", "e", "f", "g", "h", "i", "j", "k", "l", "m",
      "n", "o", "p", "q", "r", "s", "t", "u", "v", "w", "x", "y", "z",
      "{", "|", "}", "~">>

\* the code of a printable ASCII character
Code(c) == 31 + (CHOOSE i \in 1..Len(Printable) : Printable[i] = c)

IsAscii(c) == \E i \in 1..Len(Printable) : Printable[i] = c

\* the letters outside ASCII that a text of the model can hold: U+00E9 and its
\* capital U+00C9
NonAsciiLower == "é"
NonAsciiUpper == "É"

\* the bytes of a character in UTF-8
Utf8(c) ==
    IF c = NonAsciiLower THEN <<195, 169>>
    ELSE IF c = NonAsciiUpper THEN <<195, 137>>
    ELSE <<Code(c)>>

\* unicode.ToLower
ToLowerChar(c) ==
    IF c = NonAsciiUpper THEN NonAsciiLower
    ELSE IF IsAscii(c) /\ Code(c) >= 65 /\ Code(c) <= 90 THEN Printable[Code(c) + 32 - 31]
    ELSE c

\* strings.ToLower
ToLower(s) == [i \in 1..Len(s) |-> ToLowerChar(s[i])]

\* mutant: the underscore counts as a letter
IsLetter_Underscore(c) ==
    \/ c \in {NonAsciiLower, NonAsciiUpper, "_"}
    \/ IsAscii(c) /\ ((Code(c) >= 65 /\ Code(c) <= 90) \/ (Code(c) >= 97 /\ Code(c) <= 122))

\* unicode.IsLetter
IsLetter(c) ==
    \/ c \in {NonAsciiLower, NonAsciiUpper}
    \/ IsAscii(c) /\ ((Code(c) >= 65 /\ Code(c) <= 90) \/ (Code(c) >= 97 /\ Code(c) <= 122))

\* unicode.IsDigit
IsDigit(c) == IsAscii(c) /\ Code(c) >= 48 /\ Code(c) <= 57

\* int(float64(len(text)) * approxTokensPerChar)
EstimateTokenCount(text, ratio) == (Len(text) * ratio[1]) \div ratio[2]

(***************************************************************************)
(* ExtractHeadings                                                         *)
(***************************************************************************)
\* strings.Split(content, "\n"): the lines between the newlines, the last one
\* (possibly empty) included
SplitLines(s) ==
    LET P == {i \in 1..Len(s) : s[i] = NL}
        \* 1-based index of the first character of line k
        First(k) == IF k = 1 THEN 1
                    ELSE 1 + (CHOOSE i \in P : Cardinality({j \in P : j < i}) = k - 2)
        \* 1-based index of the newline ending line k (or one past the end)
        Stop(k) == IF k = Cardinality(P) + 1 THEN Len(s) + 1
                   ELSE CHOOSE i \in P : Cardinality({j \in P : j < i}) = k - 1
    IN  [k \in 1..(Cardinality(P) + 1) |-> SubSeq(s, First(k), Stop(k) - 1)]

RECURSIVE CountHashes(_)
CountHashes(s) ==
    IF s # <<>> /\ Head(s) = "#" THEN 1 + CountHashes(Tail(s)) ELSE 0

\* headingRegex ^(#{1,6})\s+(.+)$ on a trimmed line: <<>> when it does not
\* match, else <<level, text>> (text already trimmed)
HeadingMatch(line) ==
    LET t == TrimSpace(line)
        k == CountHashes(t)
        rest == SubSeq(t, k + 1, Len(t))
        body == TrimLeft(rest)
    IN  IF /\ k >= 1
           /\ k <= MaxHeadingLevel
           /\ rest # <<>>
           /\ IsSpace(Head(rest))
           /\ body # <<>>
        THEN <<k, TrimSpace(body)>>
        ELSE <<>>

\* the loop over the lines, position accumulating len(line) + 1
RECURSIVE HeadingsOfLines(_, _)
RECURSIVE HeadingsOfLines_NoNewline(_, _)
HeadingsOfLines(lines, position) ==
    IF lines = <<>> THEN <<>>
    ELSE LET line == Head(lines)
             m == HeadingMatch(line)
             rest == HeadingsOfLines(Tail(lines), position + Len(line) + 1)
         IN  IF m # <<>>
             THEN <<[Level |-> m[1], Text |-> m[2], Position |-> position]>> \o rest
             ELSE rest

\* mutant: the newline is not counted into position
HeadingsOfLines_NoNewline(lines, position) ==
    IF lines = <<>> THEN <<>>
    ELSE LET line == Head(lines)
             m == HeadingMatch(line)
             rest == HeadingsOfLines_NoNewline(Tail(lines), position + Len(line))
         IN  IF m # <<>>
             THEN <<[Level |-> m[1], Text |-> m[2], Position |-> position]>> \o rest
             ELSE rest

\* mutant: positions accumulate the line lengths only
ExtractHeadings_NoNewline(content) == HeadingsOfLines_NoNewline(SplitLines(content), 0)

ExtractHeadings(content) == HeadingsOfLines(SplitLines(content), 0)

(***************************************************************************)
(* GetHeadingContext                                                       *)
(***************************************************************************)
RECURSIVE PopStack(_, _)
PopStack(stack, level) ==
    IF stack # <<>> /\ stack[Len(stack)].Level >= level
    THEN PopStack(SubSeq(stack, 1, Len(stack) - 1), level)
    ELSE stack

RECURSIVE HeadingStack(_, _, _)
HeadingStack(headings, position, stack) ==
    IF headings = <<>> THEN stack
    ELSE IF Head(headings).Position >= position THEN stack
    ELSE HeadingStack(Tail(headings), position,
                      Append(PopStack(stack, Head(headings).Level), Head(headings)))

\* mutant: a heading located at position counts as before it
GetHeadingContext_Inclusive(hs, pos) ==
    LET stack == HeadingStack(hs, pos + 1, <<>>)
    IN  [i \in 1..Len(stack) |-> stack[i].Text]

GetHeadingContext(hs, pos) ==
    LET stack == HeadingStack(hs, pos, <<>>)
    IN  [i \in 1..Len(stack) |-> stack[i].Text]

(***************************************************************************)
(* FindBestSplitPoint                                                      *)
(***************************************************************************)
IsSentenceEnd(text, i) ==
    /\ At(text, i) \in {".", "!", "?"}
    /\ \/ i + 1 >= Len(text)
       \/ At(text, i + 1) \in {SP, NL}

IsParagraphBreak(text, i) ==
    i > 0 /\ At(text, i) = NL /\ At(text, i - 1) = NL

IsLineBreak(text, i) == At(text, i) = NL

IsWordBreak(text, i) == At(text, i) = SP

\* the test of the rule's loop body at index i
Matches(rule, text, i) ==
    CASE rule = "sentence"  -> IsSentenceEnd(text, i)
      [] rule = "paragraph" -> IsParagraphBreak(text, i)
      [] rule = "line"      -> IsLineBreak(text, i)
      [] rule = "word"      -> IsWordBreak(text, i)

\* for i := maxPos; i > maxPos-window && i > 0; i-- : the first i (searching
\* backward) at which the rule matches, or -1
ScanBack(rule, text, maxPos, window) ==
    LET lo == IF maxPos - window + 1 > 1 THEN maxPos - window + 1 ELSE 1
        S == {i \in lo..maxPos : Matches(rule, text, i)}
    IN  IF S = {} THEN -1 ELSE MaxOf(S)

FindBestSplitPoint(text, maxPos) ==
    IF maxPos >= Len(text) THEN Len(text)
    ELSE LET s == ScanBack("sentence", text, maxPos, SentenceWindow)
             p == ScanBack("paragraph", text, maxPos, ParagraphWindow)
             l == ScanBack("line", text, maxPos, LineWindow)
             w == ScanBack("word", text, maxPos, WordWindow)
         IN  IF s # -1 THEN s + 1
             ELSE IF p # -1 THEN p
             ELSE IF l # -1 THEN l + 1
             ELSE IF w # -1 THEN w + 1
             ELSE maxPos


(***************************************************************************)
(* ChunkDocument: the pieces of its body                                   *)
(***************************************************************************)
Digits == <<"0", "1", "2", "3", "4", "5", "6", "7", "8", "9">>

\* the %d verb of fmt.Sprintf, for n >= 0
RECURSIVE Itoa(_)
Itoa(n) == IF n < 10 THEN Digits[n + 1] ELSE Itoa(n \div 10) \o Digits[(n % 10) + 1]

\* mutant: the id of the single-chunk path used for every chunk
ChunkID_NoIndex(fileHash, chunkIndex) == fileHash \o "_0"

\* fmt.Sprintf("%s_%d", fileHash, chunkIndex)
ChunkID(fileHash, chunkIndex) == fileHash \o "_" \o Itoa(chunkIndex)

\* mutant: a strict comparison
IsSmallDocument_Strict(a) ==
    EstimateTokenCount(a.content, a.approxTokensPerChar) < a.maxTokensPerChunk

\* the test that sends a document down the single-chunk path
IsSmallDocument(a) ==
    EstimateTokenCount(a.content, a.approxTokensPerChar) <= a.maxTokensPerChunk

\* int(float64(maxTokensPerChunk) / approxTokensPerChar)
MaxChunkChars(a) ==
    (a.maxTokensPerChunk * a.approxTokensPerChar[2]) \div a.approxTokensPerChar[1]

\* int(float64(maxChunkChars) * float64(chunkOverlapPercent) / 100.0)
OverlapChars(mcc, percent) == (mcc * percent) \div 100

\* the chunk of the single-chunk path
SingleChunk(a, t) ==
    [ID          |-> a.fileHash \o "_0",
     FilePath    |-> a.filePath,
     FileHash    |-> a.fileHash,
     ChunkIndex  |-> 0,
     Content     |-> a.content,
     StartOffset |-> 0,
     EndOffset   |-> Len(a.content),
     TokenCount  |-> EstimateTokenCount(a.content, a.approxTokensPerChar),
     HeadingPath |-> <<>>,
     CreatedAt   |-> t]

\* the loop over the headings: the position of the first heading of smallest
\* level in (minHeadingSplitPos, idealEnd], or bestEnd as it came in
RECURSIVE HeadingScan(_, _, _, _, _)
HeadingScan(hs, minHeadingSplitPos, idealEnd, bestEnd, bestHeadingLevel) ==
    IF hs = <<>> THEN bestEnd
    ELSE LET h == Head(hs)
         IN  IF /\ h.Position > minHeadingSplitPos
                /\ h.Position <= idealEnd
                /\ h.Level < bestHeadingLevel
             THEN HeadingScan(Tail(hs), minHeadingSplitPos, idealEnd, h.Position, h.Level)
             ELSE HeadingScan(Tail(hs), minHeadingSplitPos, idealEnd, bestEnd, bestHeadingLevel)

\* bestEnd after the heading loop
HeadingEnd(hs, st, mcc) ==
    HeadingScan(hs, st + (mcc \div 2), st + mcc, st + mcc, NoHeadingLevel)

\* bestEnd after the fallback to FindBestSplitPoint
SplitEnd(text, hs, st, mcc) ==
    IF HeadingEnd(hs, st, mcc) = st + mcc
    THEN FindBestSplitPoint(text, st + mcc)
    ELSE HeadingEnd(hs, st, mcc)

\* bestEnd as the chunk uses it: clamped to the content, forced past start
BestEnd(text, hs, st, mcc) ==
    LET e == SplitEnd(text, hs, st, mcc)
        clamped == IF e > Len(text) THEN Len(text) ELSE e
    IN  IF clamped <= st THEN st + Min(mcc, Len(text) - st) ELSE clamped

\* nextStart: the overlap, then the minimum progress
NextStart(st, bestEnd, mcc, overlap) ==
    LET nextStart == bestEnd - overlap
        minProgress == mcc \div 10
    IN  IF nextStart <= st + minProgress THEN st + minProgress ELSE nextStart

\* mutant: only the empty slice is skipped
IsBlank_EmptyOnly(chunkContent) == Len(chunkContent) = 0

\* a whitespace-only slice is skipped
IsBlank(chunkContent) == Len(TrimSpace(chunkContent)) = 0

\* mutant: the index advances on a skipped slice too
AfterSkip_Advance(idx) == idx + 1

\* what the loop does after a whitespace-only slice
AfterSkip(idx) == idx

\* mutant: the chunk keeps the trimmed text
LoopChunk_Trimmed(a, hs, idx, st, bestEnd, t) ==
    [ID          |-> a.fileHash \o "_" \o Itoa(idx),
     FilePath    |-> a.filePath,
     FileHash    |-> a.fileHash,
     ChunkIndex  |-> idx,
     Content     |-> TrimSpace(Slice(a.content, st, bestEnd)),
     StartOffset |-> st,
     EndOffset   |-> bestEnd,
     TokenCount  |-> EstimateTokenCount(Slice(a.content, st, bestEnd), a.approxTokensPerChar),
     HeadingPath |-> GetHeadingContext(hs, st),
     CreatedAt   |-> t]

\* mutant: the end offset recorded as the index of the last character
LoopChunk_InclusiveEnd(a, hs, idx, st, bestEnd, t) ==
    [ID          |-> a.fileHash \o "_" \o Itoa(idx),
     FilePath    |-> a.filePath,
     FileHash    |-> a.fileHash,
     ChunkIndex  |-> idx,
     Content     |-> Slice(a.content, st, bestEnd),
     StartOffset |-> st,
     EndOffset   |-> bestEnd - 1,
     TokenCount  |-> EstimateTokenCount(Slice(a.content, st, bestEnd), a.approxTokensPerChar),
     HeadingPath |-> GetHeadingContext(hs, st),
     CreatedAt   |-> t]

\* mutant: the heading path taken at the end of the chunk
LoopChunk_PathAtEnd(a, hs, idx, st, bestEnd, t) ==
    [ID          |-> ChunkID(a.fileHash, idx),
     FilePath    |-> a.filePath,
     FileHash    |-> a.fileHash,
     ChunkIndex  |-> idx,
     Content     |-> Slice(a.content, st, bestEnd),
     StartOffset |-> st,
     EndOffset   |-> bestEnd,
     TokenCount  |-> EstimateTokenCount(Slice(a.content, st, bestEnd), a.approxTokensPerChar),
     HeadingPath |-> GetHeadingContext(hs, bestEnd),
     CreatedAt   |-> t]

\* the chunk of one loop iteration
LoopChunk(a, hs, idx, st, bestEnd, t) ==
    [ID          |-> ChunkID(a.fileHash, idx),
     FilePath    |-> a.filePath,
     FileHash    |-> a.fileHash,
     ChunkIndex  |-> idx,
     Content     |-> Slice(a.content, st, bestEnd),
     StartOffset |-> st,
     EndOffset   |-> bestEnd,
     TokenCount  |-> EstimateTokenCount(Slice(a.content, st, bestEnd), a.approxTokensPerChar),
     HeadingPath |-> GetHeadingContext(hs, st),
     CreatedAt   |-> t]

(***************************************************************************)
(* tokenize                                                                *)
(***************************************************************************)
\* the keys of the stopWords map
StopWords ==
    {"a", "an", "and", "are", "as", "at", "be", "by", "for", "from",
     "has", "he", "in", "is", "it", "its", "of", "on", "or", "that",
     "the", "to", "was", "were", "will", "with", "this", "but", "they",
     "have", "had", "not", "been", "she", "her", "his", "their", "which",
     "would", "there", "what", "about", "if", "do", "does", "did", "can",
     "could", "should", "may", "might", "shall", "so", "than", "then",
     "these", "those", "each", "all", "any", "both", "few", "more",
     "most", "other", "some", "such", "no", "nor", "only", "own", "same",
     "too", "very", "just", "because", "how", "when", "where", "who",
     "whom", "why", "also", "into", "through", "during", "before",
     "after", "above", "below", "between", "out", "up", "down", "over",
     "under", "again", "further", "once", "here", "am", "you", "your",
     "we", "our", "my", "me", "him", "them", "us"}

\* the one element of a set of one element; with S == {f(v) : v \in {e}} it
\* gives f(e) with e evaluated once, before f
Only(S) == CHOOSE x \in S : TRUE

\* a sequence of characters as one string
RECURSIVE Str(_)
Str(s) == IF s = <<>> THEN "" ELSE Head(s) \o Str(Tail(s))

isStopWord(word) == Str(word) \in StopWords

\* []byte(s)
RECURSIVE Bytes(_)
Bytes(s) == IF s = <<>> THEN <<>> ELSE Utf8(Head(s)) \o Bytes(Tail(s))

\* len(s), in bytes
ByteLen(s) == Len(Bytes(s))

\* !isStopWord(token) && len(token) > 1
KeepToken(token) == ~isStopWord(token) /\ ByteLen(token) > 1

\* one pass of the loop over the runes: a letter or a digit is added to the
\* token under way, any other rune ends it; scan is <<current, tokens>>
TokenizeRune(r, scan) ==
    IF IsLetter(r) \/ IsDigit(r)
    THEN <<Append(scan[1], r), scan[2]>>
    ELSE <<<<>>, IF scan[1] # <<>> /\ KeepToken(scan[1])
                 THEN Append(scan[2], scan[1]) ELSE scan[2]>>

\* the passes for the runes at places lo to hi, a stretch of several runes
\* half by half
RECURSIVE TokenizeRange(_, _, _, _)
TokenizeRange(runes, lo, hi, scan) ==
    IF lo > hi THEN scan
    ELSE IF lo = hi THEN TokenizeRune(runes[lo], scan)
    ELSE Only({TokenizeRange(runes, (lo + hi) \div 2 + 1, hi, half) :
                  half \in {TokenizeRange(runes, lo, (lo + hi) \div 2, scan)}})

\* the loop over the runes of the lower-cased text, then the last token
TokenizeScan(runes, current, tokens) ==
    LET scan == TokenizeRange(runes, 1, Len(runes), <<current, tokens>>)
    IN  IF scan[1] # <<>> /\ KeepToken(scan[1]) THEN Append(scan[2], scan[1]) ELSE scan[2]

tokenize(text) == TokenizeScan(ToLower(text), <<>>, <<>>)

(***************************************************************************)
(* Natural numbers of any size up to eight limbs: the limbs of base        *)
(* LimbBase, lowest first, no zero limb at the top; <<>> is 0.  The        *)
(* operations avoid recursion: a carry is found by looking at the limbs    *)
(* below, a product by adding up its columns.                              *)
(***************************************************************************)
LimbBits == 15

LimbBase == 32768

Pow2(k) == 2 ^ k

MaxOfSet(S) == CHOOSE x \in S : \A y \in S : y <= x

BigNorm(a) ==
    LET nz == {i \in 1..Len(a) : a[i] # 0}
    IN  IF nz = {} THEN <<>> ELSE SubSeq(a, 1, MaxOfSet(nz))

\* n >= 0 as a big number
BigOfInt(n) ==
    BigNorm(<<n % LimbBase, (n \div LimbBase) % LimbBase, n \div (LimbBase * LimbBase)>>)

LimbAt(a, i) == IF i >= 1 /\ i <= Len(a) THEN a[i] ELSE 0

\* the carry into limb i of a + b: some lower limb overflows and every limb
\* between it and i passes the carry on
CarryInto(a, b, i) ==
    \E j \in 1..(i - 1) :
        /\ LimbAt(a, j) + LimbAt(b, j) >= LimbBase
        /\ \A k \in (j + 1)..(i - 1) : LimbAt(a, k) + LimbAt(b, k) = LimbBase - 1

\* a + b, for limbs below LimbBase that may have zeros at the top
BigAdd(a, b) ==
    BigNorm([i \in 1..((IF Len(a) > Len(b) THEN Len(a) ELSE Len(b)) + 1) |->
                (LimbAt(a, i) + LimbAt(b, i) + (IF CarryInto(a, b, i) THEN 1 ELSE 0))
                % LimbBase])

\* the borrow from limb i of a - b
BorrowFrom(a, b, i) ==
    \E j \in 1..(i - 1) :
        /\ LimbAt(a, j) < LimbAt(b, j)
        /\ \A k \in (j + 1)..(i - 1) : LimbAt(a, k) = LimbAt(b, k)

\* a - b, for a >= b
BigSub(a, b) ==
    BigNorm([i \in 1..Len(a) |->
                (a[i] - LimbAt(b, i) - (IF BorrowFrom(a, b, i) THEN 1 ELSE 0) + LimbBase)
                % LimbBase])

\* -1, 0, 1 as a < b, a = b, a > b
BigCmp(a, b) ==
    IF Len(a) # Len(b) THEN (IF Len(a) < Len(b) THEN -1 ELSE 1)
    ELSE LET d == {i \in 1..Len(a) : a[i] # b[i]}
         IN  IF d = {} THEN 0
             ELSE IF a[MaxOfSet(d)] < b[MaxOfSet(d)] THEN -1 ELSE 1

\* a * d, for 0 <= d < LimbBase: the low halves of the limb products plus the
\* high halves one limb up
BigMulSmall(a, d) ==
    BigAdd([i \in 1..Len(a) |-> (a[i] * d) % LimbBase],
           [i \in 1..(Len(a) + 1) |-> IF i = 1 THEN 0 ELSE (a[i - 1] * d) \div LimbBase])

\* a * LimbBase^n
BigShiftLimbs(a, n) == IF a = <<>> THEN <<>> ELSE [i \in 1..n |-> 0] \o a

\* limb i of a times limb k + 1 - i of b
LimbProduct(a, b, k, i) == LimbAt(a, i) * LimbAt(b, k + 1 - i)

\* column k of a * b: the low halves of the limb products a[i] * b[j] with
\* i + j = k + 1 and the high halves of those with i + j = k
Column(a, b, k) ==
      (LimbProduct(a, b, k, 1) % LimbBase) + (LimbProduct(a, b, k, 2) % LimbBase)
    + (LimbProduct(a, b, k, 3) % LimbBase) + (LimbProduct(a, b, k, 4) % LimbBase)
    + (LimbProduct(a, b, k, 5) % LimbBase) + (LimbProduct(a, b, k, 6) % LimbBase)
    + (LimbProduct(a, b, k, 7) % LimbBase) + (LimbProduct(a, b, k, 8) % LimbBase)
    + (LimbProduct(a, b, k - 1, 1) \div LimbBase) + (LimbProduct(a, b, k - 1, 2) \div LimbBase)
    + (LimbProduct(a, b, k - 1, 3) \div LimbBase) + (LimbProduct(a, b, k - 1, 4) \div LimbBase)
    + (LimbProduct(a, b, k - 1, 5) \div LimbBase) + (LimbProduct(a, b, k - 1, 6) \div LimbBase)
    + (LimbProduct(a, b, k - 1, 7) \div LimbBase) + (LimbProduct(a, b, k - 1, 8) \div LimbBase)

\* the columns of a product, each below 16 * LimbBase, as a number
BigOfColumns(cols) ==
    BigAdd([k \in 1..Len(cols) |-> cols[k] % LimbBase],
           [k \in 1..(Len(cols) + 1) |-> IF k = 1 THEN 0 ELSE cols[k - 1] \div LimbBase])

\* a * b, for a of eight limbs at most
BigMul(a, b) ==
    BigOfColumns([k \in 1..(Len(a) + Len(b)) |-> Column(a, b, k)])

\* 2^k
BigPow2(k) ==
    [i \in 1..(k \div LimbBits + 1) |-> IF i = k \div LimbBits + 1 THEN Pow2(k % LimbBits) ELSE 0]

\* a * 2^k
BigShl(a, k) ==
    LET n == k \div LimbBits
        r == k % LimbBits
    IN  BigNorm([i \in 1..(Len(a) + n + 1) |->
                    IF i <= n THEN 0
                    ELSE ((LimbAt(a, i - n) * Pow2(r)) % LimbBase)
                         + ((LimbAt(a, i - n - 1) * Pow2(r)) \div LimbBase)])

\* a \div 2^k
BigShr(a, k) ==
    LET n == k \div LimbBits
        r == k % LimbBits
    IN  IF n >= Len(a) THEN <<>>
        ELSE BigNorm([i \in 1..(Len(a) - n) |->
                         (a[i + n] \div Pow2(r))
                         + (LimbAt(a, i + n + 1) % Pow2(r)) * Pow2(LimbBits - r)])

\* a % 2^k
BigLowBits(a, k) ==
    LET n == k \div LimbBits
        r == k % LimbBits
    IN  IF n >= Len(a) THEN a
        ELSE BigNorm([i \in 1..(n + 1) |-> IF i <= n THEN a[i] ELSE a[i] % Pow2(r)])

\* the number of binary digits of a
BigBitLen(a) ==
    IF a = <<>> THEN 0
    ELSE (Len(a) - 1) * LimbBits
         + (CHOOSE k \in 1..LimbBits : Pow2(k - 1) <= a[Len(a)] /\ a[Len(a)] < Pow2(k))

\* the number of zero binary digits at the low end of a, a # 0
BigTrailingZeros(a) ==
    LET i == CHOOSE j \in 1..Len(a) : a[j] # 0 /\ \A k \in 1..(j - 1) : a[k] = 0
    IN  (i - 1) * LimbBits
        + (CHOOSE k \in 0..(LimbBits - 1) : a[i] % Pow2(k + 1) = Pow2(k))

BigIsOdd(a) == a # <<>> /\ a[1] % 2 = 1

\* a % d, for 0 < d < LimbBase
RECURSIVE BigModSmallFrom(_, _, _, _)
BigModSmallFrom(a, d, i, rem) ==
    IF i = 0 THEN rem
    ELSE BigModSmallFrom(a, d, i - 1, (rem * LimbBase + a[i]) % d)

BigModSmall(a, d) == BigModSmallFrom(a, d, Len(a), 0)

\* q * b <= r
Fits(q, b, r) == Only({BigCmp(p, r) <= 0 : p \in {BigMulSmall(b, q)}})

\* the largest q < LimbBase with q * b <= r, for r < b * LimbBase and the top
\* limb of b at least LimbBase / 2: at most two below the estimate that the top
\* limbs give
QuotientDigit(r, b) ==
    LET est == (LimbAt(r, Len(b) + 1) * LimbBase + LimbAt(r, Len(b))) \div b[Len(b)]
        top == IF est > LimbBase - 1 THEN LimbBase - 1 ELSE est
    IN  IF top = 0 \/ Fits(top, b, r) THEN top
        ELSE IF top = 1 \/ Fits(top - 1, b, r) THEN top - 1
        ELSE top - 2

\* the remainder after the digit q
DigitRemainder(r, b, q) == Only({BigSub(r, p) : p \in {BigMulSmall(b, q)}})

\* long division of a by b, from limb i of a downwards: <<quotient, remainder>>
RECURSIVE BigDivModFrom(_, _, _, _, _)
BigDivModFrom(a, b, i, quot, rem) ==
    IF i = 0 THEN <<BigNorm(quot), rem>>
    ELSE Only({BigDivModFrom(a, b, i - 1, <<step[1]>> \o quot, step[2]) :
                  step \in {Only({<<q, DigitRemainder(BigNorm(<<a[i]>> \o rem), b, q)>> :
                                     q \in {QuotientDigit(BigNorm(<<a[i]>> \o rem), b)}})}})

\* <<a \div b, a % b>>, b # 0: both are shifted to bring the top limb of b to
\* LimbBase / 2 or more; the top Len(b) - 1 limbs of a are below b, so the
\* division starts with them as the remainder
BigDivModShifted(as, bs, skip, shift) ==
    Only({<<qr[1], BigShr(qr[2], shift)>> :
             qr \in {BigDivModFrom(as, bs, Len(as) - skip, <<>>,
                                   SubSeq(as, Len(as) - skip + 1, Len(as)))}})

BigDivMod(a, b) ==
    LET shift == LimbBits - (BigBitLen(b) - (Len(b) - 1) * LimbBits)
    IN  Only({BigDivModShifted(as, bs, IF Len(as) < Len(bs) THEN Len(as) ELSE Len(bs) - 1,
                               shift) :
                 as \in {BigShl(a, shift)}, bs \in {BigShl(b, shift)}})

\* the largest s with s * s <= n, for n < LimbBase * LimbBase
SmallSqrt(n) == CHOOSE s \in 0..(LimbBase - 1) : s * s <= n /\ (s + 1) * (s + 1) > n

\* Newton's iteration from x >= sqrt(n) downwards: the largest x with x * x <= n
RECURSIVE BigSqrtFrom(_, _)
BigSqrtFrom(n, x) ==
    Only({IF BigCmp(y, x) >= 0 THEN x ELSE BigSqrtFrom(n, y) :
             y \in {Only({BigShr(BigAdd(x, qr[1]), 1) : qr \in {BigDivMod(n, x)}})}})

\* the first guess is the root of the top two limbs, rounded up, at the place of
\* the root's top limb
BigSqrt(n) ==
    IF n = <<>> THEN <<>>
    ELSE LET low == 2 * ((Len(n) - 1) \div 2)
         IN  Only({BigSqrtFrom(n, x) :
                      x \in {BigShiftLimbs(BigOfInt(SmallSqrt(LimbAt(n, low + 2) * LimbBase
                                                              + LimbAt(n, low + 1)) + 1),
                                           low \div 2)}})

(***************************************************************************)
(* float64 and float32 values: s * m * 2^e with s the sign (0 for zero)    *)
(* and m odd, and the IEEE 754 operations rounding to nearest, ties to     *)
(* even; the values of the model stay far from overflow and underflow      *)
(***************************************************************************)
FZero == [s |-> 0, m |-> <<>>, e |-> 0]

FMake(s, m, e) ==
    IF m = <<>> THEN FZero
    ELSE [s |-> s, m |-> BigShr(m, BigTrailingZeros(m)), e |-> e + BigTrailingZeros(m)]

\* the digits of m below the lowest shift are more than half a unit of the rest,
\* or half a unit exactly with something beyond them (sticky) or the rest odd
RoundsUp(m, shift, sticky) ==
    LET c == BigCmp(BigLowBits(m, shift), BigPow2(shift - 1))
    IN  c > 0 \/ (c = 0 /\ (sticky \/ BigIsOdd(BigShr(m, shift))))

\* s * m * 2^e, plus a positive amount below one unit of m when sticky, rounded
\* to p binary digits
FRound(s, m, e, sticky, p) ==
    LET shift == BigBitLen(m) - p
    IN  IF shift <= 0 THEN FMake(s, m, e)
        ELSE Only({FMake(s, q, e + shift) :
                      q \in {IF RoundsUp(m, shift, sticky)
                             THEN BigAdd(BigShr(m, shift), <<1>>)
                             ELSE BigShr(m, shift)}})

F64Digits == 53

F32Digits == 24

\* float64(n) for a small integer n >= 0
F64OfInt(n) == FMake(IF n = 0 THEN 0 ELSE 1, BigOfInt(n), 0)

F64Neg(x) == [x EXCEPT !.s = 0 - x.s]

\* x + y for the mantissas brought to the exponent e
F64AddAligned(xs, xm, ys, ym, e) ==
    IF xs = ys
    THEN Only({FRound(xs, m, e, FALSE, F64Digits) : m \in {BigAdd(xm, ym)}})
    ELSE IF BigCmp(xm, ym) = 0 THEN FZero
    ELSE IF BigCmp(xm, ym) > 0
    THEN Only({FRound(xs, m, e, FALSE, F64Digits) : m \in {BigSub(xm, ym)}})
    ELSE Only({FRound(ys, m, e, FALSE, F64Digits) : m \in {BigSub(ym, xm)}})

\* x + y
F64Add(x, y) ==
    IF x.s = 0 THEN y
    ELSE IF y.s = 0 THEN x
    ELSE LET e == IF x.e < y.e THEN x.e ELSE y.e
         IN  Only({F64AddAligned(x.s, xm, y.s, ym, e) :
                      xm \in {BigShl(x.m, x.e - e)}, ym \in {BigShl(y.m, y.e - e)}})

\* x - y
F64Sub(x, y) == F64Add(x, F64Neg(y))

\* x * y
F64Mul(x, y) ==
    IF x.s = 0 \/ y.s = 0 THEN FZero
    ELSE Only({FRound(x.s * y.s, m, x.e + y.e, FALSE, F64Digits) : m \in {BigMul(x.m, y.m)}})

\* x / y, y # 0: the quotient to at least three digits more than F64Digits
F64Div(x, y) ==
    IF x.s = 0 THEN FZero
    ELSE LET d == F64Digits + 3 + BigBitLen(y.m) - BigBitLen(x.m)
             k == IF d > 0 THEN d ELSE 0
         IN  Only({FRound(x.s * y.s, qr[1], x.e - y.e - k, qr[2] # <<>>, F64Digits) :
                      qr \in {Only({BigDivMod(n, y.m) : n \in {BigShl(x.m, k)}})}})

\* the root r of n = m * 2^k, rounded
F64SqrtOf(n, r, e) ==
    Only({FRound(1, r, e, sq # n, F64Digits) : sq \in {BigMul(r, r)}})

\* math.Sqrt(x), x >= 0: the root to at least three digits more than F64Digits
F64Sqrt(x) ==
    IF x.s = 0 THEN FZero
    ELSE LET d == 2 * (F64Digits + 3) - BigBitLen(x.m)
             k0 == IF d > 0 THEN d ELSE 0
             k == IF (x.e - k0) % 2 = 0 THEN k0 ELSE k0 + 1
         IN  Only({Only({F64SqrtOf(n, r, (x.e - k) \div 2) : r \in {BigSqrt(n)}}) :
                      n \in {BigShl(x.m, k)}})

\* float32(x)
F32Of(x) == FRound(x.s, x.m, x.e, FALSE, F32Digits)

(***************************************************************************)
(* hashString: FNV-1a, 64 bits                                             *)
(***************************************************************************)
\* 0xcbf29ce484222325
FnvOffsetBasis == <<8997, 2116, 29586, 24468, 12>>

\* 0x100000001b3
FnvPrime == <<435, 0, 1024>>

\* a xor b, for a and b below 2^8
Xor8(a, b) ==
      ((a + b) % 2)
    + ((a \div 2 + b \div 2) % 2) * 2
    + ((a \div 4 + b \div 4) % 2) * 4
    + ((a \div 8 + b \div 8) % 2) * 8
    + ((a \div 16 + b \div 16) % 2) * 16
    + ((a \div 32 + b \div 32) % 2) * 32
    + ((a \div 64 + b \div 64) % 2) * 64
    + ((a \div 128 + b \div 128) % 2) * 128

\* hash ^= byte
XorByte(h, b) ==
    BigNorm([i \in 1..(IF h = <<>> THEN 1 ELSE Len(h)) |->
                IF i = 1 THEN (LimbAt(h, 1) \div 256) * 256 + Xor8(LimbAt(h, 1) % 256, b)
                ELSE h[i]])

\* hash *= prime, in 64 bits
MulPrime(h) == BigLowBits(BigMul(h, FnvPrime), 64)

\* h.Write(bytes)
\* h.Write of the bytes at places first to last; a stretch of several bytes is
\* written half by half
RECURSIVE FnvWriteRange(_, _, _, _)
FnvWriteRange(h, bytes, first, last) ==
    IF first > last THEN h
    ELSE IF first = last THEN MulPrime(XorByte(h, bytes[first]))
    ELSE Only({FnvWriteRange(half, bytes, (first + last) \div 2 + 1, last) :
                  half \in {FnvWriteRange(h, bytes, first, (first + last) \div 2)}})

\* h.Write(bytes)
FnvWrite(h, bytes) == FnvWriteRange(h, bytes, 1, Len(bytes))

\* the eight bytes of the seed, lowest first; the seeds are below 2^31
SeedBytes(seed) ==
    <<seed % 256, (seed \div 256) % 256, (seed \div 65536) % 256,
      (seed \div 16777216) % 256, 0, 0, 0, 0>>

hashString(s, seed) ==
    Only({FnvWrite(h, s) : h \in {FnvWrite(FnvOffsetBasis, SeedBytes(seed))}})

(***************************************************************************)
(* GetLocalEmbedding                                                       *)
(***************************************************************************)
LocalEmbeddingDimension == 384

\* make([]float64, n), make([]float32, n)
ZeroVector(n) == [i \in 1..n |-> FZero]

FOne == F64OfInt(1)

\* 0.5
FHalf == [s |-> 1, m |-> <<1>>, e |-> -1]

\* the float64 nearest to 0.3: 5404319552844595 / 2^54
NgramFactor == [s |-> 1, m |-> <<13107, 26214, 19660, 153>>, e |-> -54]

BigramWeight == FHalf

\* math.Log(float64(count)) for the counts 1 and 2: 0 and the float64 nearest
\* to ln 2, 6243314768165359 / 2^53 (Ln2Hi + Ln2Lo of the library)
Log(count) ==
    <<FZero, [s |-> 1, m |-> <<14831, 32244, 14603, 177>>, e |-> -53]>>[count]

\* weight := 1.0 + math.Log(float64(count))
TermWeight(count) == F64Add(FOne, Log(count))

\* vector[idx] += weight when the sign hash is even, vector[idx] -= weight
\* otherwise; the element of index idx is the one at place idx + 1
Signed(vector, idx, signHash, weight) ==
    [vector EXCEPT ![idx + 1] = IF BigIsOdd(signHash) THEN F64Sub(@, weight)
                                                  ELSE F64Add(@, weight)]

addTermToVector(vector, term, weight) ==
    Only({Signed(Signed(vector, BigModSmall(h[1], Len(vector)), h[2], weight),
                 BigModSmall(h[2], Len(vector)), h[3], F64Mul(weight, FHalf)) :
             h \in {<<hashString(term, 0), hashString(term, 1), hashString(term, 2)>>}})

\* "#" + term[i:i+3] + "#"
Ngram(term, i) == <<35>> \o SubSeq(term, i + 1, i + 3) \o <<35>>

\* the passes first to last of the loop over the 3-grams of the term; a stretch
\* of several passes is made half by half
RECURSIVE AddNgrams(_, _, _, _, _)
AddNgrams(vector, term, first, last, weight) ==
    IF first > last THEN vector
    ELSE IF first = last THEN addTermToVector(vector, Ngram(term, first), weight)
    ELSE Only({AddNgrams(half, term, (first + last) \div 2 + 1, last, weight) :
                  half \in {AddNgrams(vector, term, first, (first + last) \div 2, weight)}})

\* one pass of the loop over tf: the term, then its 3-grams when len(term) >= 3
AddTerm(vector, term, count) ==
    Only({Only({AddNgrams(whole, term, 0, Len(term) - 3, ngramWeight) :
                   whole \in {addTermToVector(vector, term, weight)},
                   ngramWeight \in {F64Mul(weight, NgramFactor)}}) :
             weight \in {TermWeight(count)}})

\* tokens[i] + "_" + tokens[i+1]
Bigram(toks, i) == toks[i + 1] \o <<95>> \o toks[i + 2]

\* the passes first to last of the loop over the pairs of neighbouring tokens
RECURSIVE AddBigrams(_, _, _, _)
AddBigrams(vector, toks, first, last) ==
    IF first > last THEN vector
    ELSE IF first = last THEN addTermToVector(vector, Bigram(toks, first), BigramWeight)
    ELSE Only({AddBigrams(half, toks, (first + last) \div 2 + 1, last) :
                  half \in {AddBigrams(vector, toks, first, (first + last) \div 2)}})

\* sum += v * v for the elements of index first to last
RECURSIVE SumSquares(_, _, _, _)
SumSquares(vector, first, last, sum) ==
    IF first > last THEN sum
    ELSE IF first = last
    THEN Only({F64Add(sum, sq) : sq \in {F64Mul(vector[first + 1], vector[first + 1])}})
    ELSE Only({SumSquares(vector, (first + last) \div 2 + 1, last, half) :
                  half \in {SumSquares(vector, first, (first + last) \div 2, sum)}})

\* as l2Normalize, but the elements are not divided by the norm
l2Normalize_Unscaled(vector) == vector

l2Normalize(vector) ==
    Only({IF norm = FZero THEN vector
          ELSE [i \in 1..Len(vector) |-> F64Div(vector[i], norm)] :
             norm \in {Only({F64Sqrt(sum) :
                                sum \in {SumSquares(vector, 0, Len(vector) - 1, FZero)}})}})

\* result[i] = float32(v)
ToFloat32(vector) == [i \in 1..Len(vector) |-> F32Of(vector[i])]

(***************************************************************************)
(* GetConfig                                                               *)
(***************************************************************************)
EmbeddingModeLocal == <<"l", "o", "c", "a", "l">>
EmbeddingModeOllama == <<"o", "l", "l", "a", "m", "a">>

DefaultOllamaURL == "http://localhost:11434/api/embeddings"
DefaultEmbeddingModel == "nomic-embed-text"
\* "./rag.db"
DefaultDBPath == <<".", "/", "r", "a", "g", ".", "d", "b">>

\* the working directory of the process, "/w"
WorkingDir == <<"/", "w">>

\* mutant: the environment wins over the command line
Resolve_EnvFirst(cli, envValue, default) ==
    IF Len(envValue) # 0 THEN envValue
    ELSE IF Len(cli) # 0 THEN cli
    ELSE default

\* the if / else if / else of one setting: flag, environment, default
Resolve(cli, envValue, default) ==
    IF Len(cli) # 0 THEN cli
    ELSE IF Len(envValue) # 0 THEN envValue
    ELSE default

\* the parts of a path between its slashes
Components(path) ==
    LET P == {i \in 1..Len(path) : path[i] = "/"}
        First(k) == IF k = 1 THEN 1
                    ELSE 1 + (CHOOSE i \in P : Cardinality({j \in P : j < i}) = k - 2)
        Stop(k) == IF k = Cardinality(P) + 1 THEN Len(path) + 1
                   ELSE CHOOSE i \in P : Cardinality({j \in P : j < i}) = k - 1
    IN  [k \in 1..(Cardinality(P) + 1) |-> SubSeq(path, First(k), Stop(k) - 1)]

\* filepath.Clean on a rooted path: empty parts and "." dropped, ".." taking
\* the part before it away
RECURSIVE CleanComponents(_, _)
CleanComponents(parts, kept) ==
    IF parts = <<>> THEN kept
    ELSE IF Head(parts) = <<>> \/ Head(parts) = <<".">>
         THEN CleanComponents(Tail(parts), kept)
    ELSE IF Head(parts) = <<".", ".">>
         THEN CleanComponents(Tail(parts),
                              IF kept = <<>> THEN kept ELSE SubSeq(kept, 1, Len(kept) - 1))
    ELSE CleanComponents(Tail(parts), Append(kept, Head(parts)))

RECURSIVE JoinRooted(_)
JoinRooted(parts) ==
    IF parts = <<>> THEN <<>> ELSE <<"/">> \o Head(parts) \o JoinRooted(Tail(parts))

IsAbsPath(path) == path # <<>> /\ path[1] = "/"

\* filepath.Abs when the working directory is known
Abs(path) ==
    LET rooted == IF IsAbsPath(path) THEN path ELSE WorkingDir \o <<"/">> \o path
        parts == CleanComponents(Components(rooted), <<>>)
    IN  IF parts = <<>> THEN <<"/">> ELSE JoinRooted(parts)

\* GetConfig; getwdOk: os.Getwd, which filepath.Abs asks for a relative path,
\* succeeds
GetConfig(f, e, getwdOk) ==
    LET dbPath == Resolve(f.dbPath, e.dbPath, DefaultDBPath)
    IN  [EmbeddingMode  |->
             IF f.modeGiven /\ Len(f.embeddingMode) # 0 THEN ToLower(f.embeddingMode)
             ELSE IF Len(e.embeddingMode) # 0 THEN ToLower(e.embeddingMode)
             ELSE EmbeddingModeLocal,
         OllamaURL      |-> Resolve(f.ollamaURL, e.ollamaURL, DefaultOllamaURL),
         EmbeddingModel |-> Resolve(f.embeddingModel, e.embeddingModel, DefaultEmbeddingModel),
         DBPath         |-> IF IsAbsPath(dbPath) \/ getwdOk THEN Abs(dbPath) ELSE dbPath]

\* no flag given, no variable set
NoFlags == [modeGiven |-> TRUE, embeddingMode |-> <<>>, ollamaURL |-> "",
            embeddingModel |-> "", dbPath |-> <<>>]
NoEnv == [embeddingMode |-> <<>>, ollamaURL |-> "", embeddingModel |-> "", dbPath |-> <<>>]

\* "OLLAMA", "Local", "/tmp/t.db", "x.db", "../y.db"
SampleModes == {<<>>, <<"O", "L", "L", "A", "M", "A">>, <<"L", "o", "c", "a", "l">>}
SamplePaths == {<<>>, <<"/", "t", "m", "p", "/", "t", ".", "d", "b">>, <<"x", ".", "d", "b">>,
                <<".", ".", "/", "y", ".", "d", "b">>}

FlagSets ==
    [modeGiven : BOOLEAN, embeddingMode : SampleModes, ollamaURL : {"", "http://custom:1234"},
     embeddingModel : {"", "custom-model"}, dbPath : SamplePaths]

Environments ==
    [embeddingMode : {<<>>, EmbeddingModeOllama}, ollamaURL : {"", "http://env:5678"},
     embeddingModel : {"", "env-model"}, dbPath : {<<>>, <<"e", ".", "d", "b">>}]

(***************************************************************************)
(* BatchEmbedChunks                                                        *)
(***************************************************************************)
\* Longest chunk list handed to BatchEmbedChunks.
MaxBatchChunks == 3
\* batchSize: the source embeds 10 chunks at a time (lister.go:222); the model
\* scales it down so that a short list spans several batches.
BatchSize == 2

OllamaRetries == 3
LocalRetries == 1
RetrySleepMillis == 1000
BatchSleepMillis == 100

\* maxRetries
MaxRetries(cfg) ==
    IF cfg.EmbeddingMode = EmbeddingModeLocal THEN LocalRetries ELSE OllamaRetries

\* mutant: one more attempt than maxRetries
MoreAttempts_Extra(r, maxRetries) == r < maxRetries

\* after the failed attempt number r (from 0), the retry loop goes on
MoreAttempts(r, maxRetries) == r + 1 < maxRetries

\* embeddings[id] = vector
Store(m, id, vector) ==
    [x \in (DOMAIN m) \cup {id} |-> IF x = id THEN vector ELSE m[x]]

\* what GetEmbedding returns for a text when it succeeds
VectorOf(content) == [of |-> content]

NotReturned == [kind |-> "none"]

\* the chunk lists: chunk i of "abc123", the last id possibly used twice
BatchChunk(i, content) == [ID |-> ChunkID("abc123", i), Content |-> content]

BatchChunkLists ==
    UNION {{[i \in 1..n |-> BatchChunk(IF dup /\ i = n /\ n > 1 THEN i - 2 ELSE i - 1,
                                       <<Digits[i + 1]>>)] :
               dup \in BOOLEAN} :
           n \in 0..MaxBatchChunks}

(***************************************************************************)
(* Inputs                                                                  *)
(***************************************************************************)
Rep(c, n) == [i \in 1..n |-> c]

RECURSIVE Times(_, _)
Times(s, n) == IF n = 0 THEN <<>> ELSE s \o Times(s, n - 1)

\* every document of at most MaxLen characters over Alphabet
ShortDocs == UNION {[1..n -> Alphabet] : n \in 0..MaxLen}

\* "a\n# a", "aa\n## a\n# a": a heading inside the cut window of a small chunk
HeadingDoc1 == <<"a", NL, "#", SP, "a">>
HeadingDoc2 == <<"a", "a", NL, "#", "#", SP, "a", NL, "#", SP, "a">>
\* "a. " and 41 letters: one early sentence end, then no boundary at all
EarlySentenceDoc == <<"a", ".", SP>> \o Rep("b", 41)
\* "# T\n\n", then "aaaa aaaa. " 6 times, "\n## S\n", and 4 times again
ProseDoc ==
    <<"#", SP, "T", NL, NL>>
    \o Times(<<"a", "a", "a", "a", SP, "a", "a", "a", "a", ".", SP>>, 6)
    \o <<NL, "#", "#", SP, "S", NL>>
    \o Times(<<"a", "a", "a", "a", SP, "a", "a", "a", "a", ".", SP>>, 4)
\* 30 letters and a tail of 20 spaces
TrailingBlankDoc == Rep("a", 30) \o Rep(SP, 20)

\* "a.\n# a": a sentence end just before a heading
SentenceHeadingDoc == <<"a", ".", NL, "#", SP, "a">>
\* "# a\n## b": a heading and a heading below it
SubHeadingDoc == <<"#", SP, "a", NL, "#", "#", SP, "b">>

SampleDocs == {HeadingDoc1, HeadingDoc2, EarlySentenceDoc, ProseDoc, TrailingBlankDoc,
               SentenceHeadingDoc, SubHeadingDoc}

Docs == ShortDocs \cup SampleDocs

\* <<maxTokensPerChunk, chunkOverlapPercent, approxTokensPerChar>>; the last
\* one is the program's configuration (4000, 15, 0.25) with the token budget
\* scaled to 10
Configs ==
    { <<1, 0, <<2, 1>>>>,
      <<1, 0, <<1, 1>>>>,
      <<2, 0, <<1, 1>>>>,
      <<2, 100, <<1, 1>>>>,
      <<3, 50, <<1, 1>>>>,
      <<10, 15, <<1, 4>>>> }

Args(doc, c) ==
    [filePath            |-> "/test/file.md",
     content             |-> doc,
     fileHash            |-> "abc123",
     maxTokensPerChunk   |-> c[1],
     chunkOverlapPercent |-> c[2],
     approxTokensPerChar |-> c[3]]

\* the longest exhaustive text given to tokenize
MaxTextLen == 4

\* letters of both cases, in and outside ASCII, a digit and a separator
TokenAlphabet == {"a", "n", "T", "1", NonAsciiLower, NonAsciiUpper, SP}

RECURSIVE TextsUpTo(_)
TextsUpTo(n) ==
    IF n = 0 THEN {<<>>}
    ELSE LET shorter == TextsUpTo(n - 1)
         IN  shorter \cup {Append(t, c) : t \in {u \in shorter : Len(u) = n - 1},
                                            c \in TokenAlphabet}

\* texts with the delimiters of the features next to letters: "#abc# abc",
\* "ab_cd ab cd", "abc_abc", and a letter outside ASCII with both
FeatureTexts ==
    {<<"#", "a", "b", "c", "#", SP, "a", "b", "c">>,
     <<"a", "b", "_", "c", "d", SP, "a", "b", SP, "c", "d">>,
     <<"a", "b", "c", "_", "a", "b", "c">>,
     <<"#", NonAsciiUpper, "1", "#", "_", NonAsciiLower, "1">>}

TokenTexts == TextsUpTo(MaxTextLen) \cup FeatureTexts

\* four long terms, many of whose features share buckets
LongTermM ==
    <<"m", "q", "d", "n", "t", "c", "u", "a", "b", "u", "u", "w", "d", "e",
      "u", "v", "t", "u", "b", "t", "o", "g">>
LongTermQ ==
    <<"q", "m", "x", "t", "x", "w", "g", "z", "s", "o", "f", "n", "k", "j",
      "i", "v", "a">>
LongTermF ==
    <<"f", "b", "s", "l", "c", "h", "p", "x", "r", "a", "l", "g", "x">>
LongTermD ==
    <<"d", "z", "w", "x", "y", "z", "q", "e", "v", "k", "f", "y", "v", "v",
      "f", "i", "d", "p", "o", "q", "t">>

\* a text of seven tokens over the four long terms, three of them twice:
\* the sums in its buckets round differently in different orders of the terms
LongTermsText ==
    LongTermM \o <<SP>> \o LongTermQ \o <<SP>> \o LongTermF \o <<SP>> \o LongTermD
        \o <<SP>> \o LongTermM \o <<SP>> \o LongTermQ \o <<SP>> \o LongTermF

\* the texts GetLocalEmbedding is called on: no token at all (empty, a single
\* character, a stop word, punctuation), one token, a token twice, two and
\* three distinct tokens
EmbedTexts ==
    {<<>>,
     <<"a">>,
     <<"T", "h", "e">>,
     <<"!", SP, "a", SP, "i", "s">>,
     <<NonAsciiLower>>,
     <<"g", "o">>,
     <<"a", "h", "q">>,
     <<"g", "o", SP, "g", "o">>,
     <<"a", "b", SP, "c", "d", SP, "a", "b">>,
     <<"c", "t", "c", SP, "c", "q", "g">>,
     <<"z", "w", "c", SP, "p", "k", "z">>,
     <<"c", "t", "c", SP, "c", "q", "g", SP, "g", "o">>}

\* the texts GetLocalEmbedding is called on twice by a caller that compares
\* the two vectors
RecallTexts == {<<>>, LongTermsText}

(***************************************************************************)
(* State                                                                   *)
(***************************************************************************)
VARIABLES
    args,           \* the arguments of the invocation
    pc,             \* the position in the code of the operation under way
    run,            \* 1: first invocation, 2: the same arguments again
    now,            \* the clock time.Now() reads
    headings,       \* ChunkDocument's locals
    maxChunkChars,
    overlapChars,
    chunkIndex,
    start,
    chunks,         \* the chunk list built so far; the result once pc = "done"
    iters,          \* loop iterations of this invocation
    exit,           \* how the invocation returned
    splitCall,      \* <<maxPos, result>> of the last FindBestSplitPoint call
    prev,           \* the result of the first invocation
    cut,            \* <<start, bestEnd>> of the last pass through the loop
    position,       \* GetHeadingContext's position argument
    context,        \* GetHeadingContext's result
    flags,          \* the command line: the four flag values GetConfig is given
    env,            \* the environment: the four RAG_* variables
    config,         \* the Config GetConfig returned, the one BatchEmbedChunks is given
    embeddings,     \* BatchEmbedChunks' locals: the map built so far,
    cursor,         \*   the index of the chunk being embedded,
    retry,          \*   the retry counter of that chunk
    ret,            \* what BatchEmbedChunks returned
    attempts,       \* the GetEmbedding calls made: <<chunk index, succeeded>>
    sleeps,         \* the time.Sleep calls made, in milliseconds
    text,           \* the argument of tokenize and of GetLocalEmbedding
    tokens,         \* tokenize's result
    call,           \* 1: first GetLocalEmbedding call, 2: the same text again
    taken,          \* the keys of tf the range loop has visited, in its order
    vector,         \* GetLocalEmbedding's accumulators
    result,         \* what GetLocalEmbedding returned
    first,          \* the accumulators and the result of the first call
    workers,        \* the concurrent invocations: each one's arguments and locals
    disk,           \* the files under the root directory: path -> content
    dbFile,         \* the database file at config.DBPath
    collection,     \* the documents of the collection "documents" in memory
    loaded,         \* the documents the collection held when the run began
    mdFiles,        \* IndexDocuments' locals: the files found,
    fileIdx,        \*   the index of the file the loop is at
    warnings,       \* the files IndexDocuments printed an embedding warning for
    indexRun,       \* the number of the IndexDocuments run
    request,        \* the arguments of MCPRetrieveFileContent
    response,       \* what MCPRetrieveFileContent returned
    results,        \* the argument of groupResultsByFile
    fileResults     \* what groupResultsByFile returned

\* ChunkDocument's state, but for the position in the code (pc)
chunkerVars == <<args, run, now, headings, maxChunkChars, overlapChars,
                 chunkIndex, start, chunks, iters, exit, splitCall, prev, cut>>

\* the state of a GetHeadingContext call
headingVars == <<position, context>>

\* the state of GetConfig and BatchEmbedChunks
serviceVars == <<flags, env, config, embeddings, cursor, retry, ret, attempts, sleeps>>

\* the state of tokenize and GetLocalEmbedding
embedVars == <<text, tokens, call, taken, vector, result, first>>

\* the state of IndexDocuments, MCPRetrieveFileContent and groupResultsByFile
toolVars == <<disk, dbFile, collection, loaded, mdFiles, fileIdx, warnings, indexRun,
              request, response, results, fileResults>>

\* what ChunkDocument and FindBestSplitPoint leave alone
outsideChunker == <<headingVars, serviceVars, embedVars, workers, toolVars>>

\* what GetHeadingContext leaves alone
outsideHeading == <<serviceVars, embedVars, workers, toolVars>>

\* what GetConfig and BatchEmbedChunks leave alone
outsideService == <<chunkerVars, headingVars, embedVars, workers, toolVars>>

\* what tokenize and GetLocalEmbedding leave alone
outsideEmbed == <<chunkerVars, headingVars, serviceVars, workers, toolVars>>

\* what the concurrent invocations leave alone: all but their own frames and the
\* clock
outsideWorkers ==
    <<pc, args, run, headings, maxChunkChars, overlapChars, chunkIndex, start, chunks,
      iters, exit, splitCall, prev, cut, headingVars, serviceVars, embedVars, toolVars>>

vars == <<pc, chunkerVars, headingVars, serviceVars, embedVars, workers, toolVars>>

\* no IndexDocuments run, no retrieval and no grouping is under way
ToolIdle ==
    /\ disk = <<>>
    /\ dbFile = [kind |-> "missing"]
    /\ collection = {}
    /\ loaded = {}
    /\ mdFiles = <<>>
    /\ fileIdx = 0
    /\ warnings = <<>>
    /\ indexRun = 0
    /\ request = <<>>
    /\ response = <<>>
    /\ results = <<>>
    /\ fileResults = <<>>

\* no GetHeadingContext call is under way
HeadingIdle == position = 0 /\ context = <<>>

\* BatchEmbedChunks' locals and traces, before a call
BatchIdle ==
    /\ embeddings = <<>>
    /\ cursor = 0
    /\ retry = 0
    /\ ret = NotReturned
    /\ attempts = <<>>
    /\ sleeps = <<>>

\* neither tokenize nor GetLocalEmbedding is under way, and no worker runs
EmbedIdle ==
    /\ text = <<>>
    /\ tokens = <<>>
    /\ call = 0
    /\ taken = <<>>
    /\ vector = <<>>
    /\ result = <<>>
    /\ first = <<>>
    /\ workers = <<>>
    /\ ToolIdle

\* neither GetConfig nor BatchEmbedChunks is under way
ServiceIdle ==
    /\ flags = NoFlags
    /\ env = NoEnv
    /\ config = GetConfig(NoFlags, NoEnv, TRUE)
    /\ BatchIdle

Init ==
    /\ args \in {Args(d, c) : d \in Docs, c \in Configs}
    /\ pc = "call"
    /\ run = 1
    /\ now = 0
    /\ headings = <<>>
    /\ maxChunkChars = 0
    /\ overlapChars = 0
    /\ chunkIndex = 0
    /\ start = 0
    /\ chunks = <<>>
    /\ iters = 0
    /\ exit = "none"
    /\ splitCall = <<>>
    /\ prev = <<>>
    /\ cut = <<>>
    /\ HeadingIdle
    /\ EmbedIdle
    /\ ServiceIdle

\* ChunkDocument up to its loop: the single-chunk return, or the set-up
Call ==
    /\ pc = "call"
    /\ IF IsSmallDocument(args)
       THEN /\ chunks' = <<SingleChunk(args, now)>>
            /\ now' = now + 1
            /\ pc' = "done"
            /\ exit' = "single"
            /\ UNCHANGED <<headings, maxChunkChars, overlapChars>>
       ELSE /\ headings' = ExtractHeadings(args.content)
            /\ maxChunkChars' = MaxChunkChars(args)
            /\ overlapChars' = OverlapChars(MaxChunkChars(args), args.chunkOverlapPercent)
            /\ pc' = "loop"
            /\ UNCHANGED <<chunks, now, exit>>
    /\ chunkIndex' = 0
    /\ start' = 0
    /\ UNCHANGED <<args, run, iters, splitCall, prev>>
    /\ UNCHANGED <<cut, outsideChunker>>

\* the loop condition fails
LoopExit ==
    /\ pc = "loop"
    /\ ~(start < Len(args.content))
    /\ pc' = "done"
    /\ exit' = "cond"
    /\ UNCHANGED <<args, run, now, headings, maxChunkChars, overlapChars,
                   chunkIndex, start, chunks, iters, splitCall, prev>>
    /\ UNCHANGED <<cut, outsideChunker>>

\* the safety cap
CapExit ==
    /\ pc = "loop"
    /\ start < Len(args.content)
    /\ chunkIndex > ChunkCap
    /\ pc' = "done"
    /\ exit' = "cap"
    /\ UNCHANGED <<args, run, now, headings, maxChunkChars, overlapChars,
                   chunkIndex, start, chunks, iters, splitCall, prev>>
    /\ UNCHANGED <<cut, outsideChunker>>

\* as Iterate, but the cap is tested one index too late
Iterate_LateCap ==
    /\ pc = "loop"
    /\ start < Len(args.content)
    /\ ~(chunkIndex > ChunkCap + 1)
    /\ iters < MaxIters
    /\ LET contentLen == Len(args.content)
           bestEnd == BestEnd(args.content, headings, start, maxChunkChars)
           nextStart == NextStart(start, bestEnd, maxChunkChars, overlapChars)
       IN  /\ iters' = iters + 1
           /\ cut' = <<start, bestEnd>>
           /\ splitCall' =
                  IF HeadingEnd(headings, start, maxChunkChars) = start + maxChunkChars
                  THEN <<start + maxChunkChars,
                         FindBestSplitPoint(args.content, start + maxChunkChars)>>
                  ELSE <<>>
           /\ IF bestEnd < start \/ bestEnd > contentLen
              THEN \* content[start:bestEnd] out of range: a run-time panic
                   /\ pc' = "panic"
                   /\ exit' = "panic"
                   /\ UNCHANGED <<start, chunkIndex, chunks, now>>
              ELSE IF IsBlank(Slice(args.content, start, bestEnd))
              THEN /\ start' = bestEnd
                   /\ chunkIndex' = AfterSkip(chunkIndex)
                   /\ UNCHANGED <<chunks, now, pc, exit>>
              ELSE /\ chunks' = Append(chunks,
                          LoopChunk(args, headings, chunkIndex, start, bestEnd, now))
                   /\ now' = now + 1
                   /\ IF bestEnd >= contentLen
                      THEN /\ pc' = "done"
                           /\ exit' = "last"
                           /\ UNCHANGED <<start, chunkIndex>>
                      ELSE IF nextStart >= contentLen
                      THEN /\ pc' = "done"
                           /\ exit' = "next"
                           /\ UNCHANGED <<start, chunkIndex>>
                      ELSE /\ start' = nextStart
                           /\ chunkIndex' = chunkIndex + 1
                           /\ UNCHANGED <<pc, exit>>
    /\ UNCHANGED <<args, run, headings, maxChunkChars, overlapChars, prev>>
    /\ UNCHANGED outsideChunker

\* one pass through the loop body
Iterate ==
    /\ pc = "loop"
    /\ start < Len(args.content)
    /\ ~(chunkIndex > ChunkCap)
    /\ iters < MaxIters
    /\ LET contentLen == Len(args.content)
           bestEnd == BestEnd(args.content, headings, start, maxChunkChars)
           nextStart == NextStart(start, bestEnd, maxChunkChars, overlapChars)
       IN  /\ iters' = iters + 1
           /\ cut' = <<start, bestEnd>>
           /\ splitCall' =
                  IF HeadingEnd(headings, start, maxChunkChars) = start + maxChunkChars
                  THEN <<start + maxChunkChars,
                         FindBestSplitPoint(args.content, start + maxChunkChars)>>
                  ELSE <<>>
           /\ IF bestEnd < start \/ bestEnd > contentLen
              THEN \* content[start:bestEnd] out of range: a run-time panic
                   /\ pc' = "panic"
                   /\ exit' = "panic"
                   /\ UNCHANGED <<start, chunkIndex, chunks, now>>
              ELSE IF IsBlank(Slice(args.content, start, bestEnd))
              THEN /\ start' = bestEnd
                   /\ chunkIndex' = AfterSkip(chunkIndex)
                   /\ UNCHANGED <<chunks, now, pc, exit>>
              ELSE /\ chunks' = Append(chunks,
                          LoopChunk(args, headings, chunkIndex, start, bestEnd, now))
                   /\ now' = now + 1
                   /\ IF bestEnd >= contentLen
                      THEN /\ pc' = "done"
                           /\ exit' = "last"
                           /\ UNCHANGED <<start, chunkIndex>>
                      ELSE IF nextStart >= contentLen
                      THEN /\ pc' = "done"
                           /\ exit' = "next"
                           /\ UNCHANGED <<start, chunkIndex>>
                      ELSE /\ start' = nextStart
                           /\ chunkIndex' = chunkIndex + 1
                           /\ UNCHANGED <<pc, exit>>
    /\ UNCHANGED <<args, run, headings, maxChunkChars, overlapChars, prev>>
    /\ UNCHANGED outsideChunker

\* the caller invokes ChunkDocument again with the same arguments
Reinvoke ==
    /\ pc = "done"
    /\ run = 1
    /\ prev' = chunks
    /\ run' = 2
    /\ pc' = "call"
    /\ chunks' = <<>>
    /\ iters' = 0
    /\ exit' = "none"
    /\ splitCall' = <<>>
    /\ UNCHANGED <<args, now, headings, maxChunkChars, overlapChars, chunkIndex, start>>
    /\ UNCHANGED <<cut, outsideChunker>>

Next == Call \/ LoopExit \/ CapExit \/ Iterate \/ Reinvoke

Spec == Init /\ [][Next]_vars

(***************************************************************************)
(* FindBestSplitPoint on its own: every text of Docs, every target position *)
(***************************************************************************)
SplitInit ==
    /\ args \in {Args(d, <<10, 15, <<1, 4>>>>) : d \in Docs}
    /\ pc = "split"
    /\ run = 1
    /\ now = 0
    /\ headings = <<>>
    /\ maxChunkChars = 0
    /\ overlapChars = 0
    /\ chunkIndex = 0
    /\ start = 0
    /\ chunks = <<>>
    /\ iters = 0
    /\ exit = "none"
    /\ splitCall = <<>>
    /\ prev = <<>>
    /\ cut = <<>>
    /\ HeadingIdle
    /\ EmbedIdle
    /\ ServiceIdle

SplitCall ==
    /\ pc = "split"
    /\ \E maxPos \in 0..(Len(args.content) + 1) :
           splitCall' = <<maxPos, FindBestSplitPoint(args.content, maxPos)>>
    /\ pc' = "splitdone"
    /\ UNCHANGED <<args, run, now, headings, maxChunkChars, overlapChars,
                   chunkIndex, start, chunks, iters, exit, prev>>
    /\ UNCHANGED <<cut, outsideChunker>>

SplitNext == SplitCall

SplitSpec == SplitInit /\ [][SplitNext]_vars

(***************************************************************************)
(* ExtractHeadings and GetHeadingContext on their own                      *)
(***************************************************************************)
\* Longest heading list handed to GetHeadingContext.
MaxHeadings == 3

SampleLevels == 1..3
SamplePositions == 0..3

\* "####### a\n###### a": seven and six hashes
DeepHeadingDoc == Rep("#", 7) \o <<SP, "a", NL>> \o Rep("#", 6) \o <<SP, "a">>
\* " # a \n#a\n#\n## b": an indented heading, then three lines that are none,
\* but for the last
IndentedHeadingDoc ==
    <<SP, "#", SP, "a", SP, NL, "#", "a", NL, "#", NL, "#", "#", SP, "b">>
\* "# T\n## A\n### A1\n## B"
NestedHeadingDoc ==
    <<"#", SP, "T", NL, "#", "#", SP, "A", NL, "#", "#", "#", SP, "A", "1", NL,
      "#", "#", SP, "B">>

ExtractDocs == Docs \cup {DeepHeadingDoc, IndentedHeadingDoc, NestedHeadingDoc}

\* every list of at most MaxHeadings headings, ordered by position or not;
\* the i-th one has the text "i"
HeadingLists ==
    UNION {{[i \in 1..n |-> [Level |-> f[i][1], Text |-> <<Digits[i + 1]>>,
                              Position |-> f[i][2]]] :
               f \in [1..n -> SampleLevels \X SamplePositions]} :
           n \in 0..MaxHeadings}

\* ChunkDocument's locals, when no ChunkDocument call is under way
ChunkerIdle ==
    /\ run = 1
    /\ now = 0
    /\ maxChunkChars = 0
    /\ overlapChars = 0
    /\ chunkIndex = 0
    /\ start = 0
    /\ chunks = <<>>
    /\ iters = 0
    /\ exit = "none"
    /\ splitCall = <<>>
    /\ prev = <<>>
    /\ cut = <<>>

ExtractInit ==
    /\ args \in {Args(d, <<10, 15, <<1, 4>>>>) : d \in ExtractDocs}
    /\ pc = "extract"
    /\ headings = <<>>
    /\ ChunkerIdle
    /\ HeadingIdle
    /\ EmbedIdle
    /\ ServiceIdle

ExtractCall ==
    /\ pc = "extract"
    /\ headings' = ExtractHeadings(args.content)
    /\ pc' = "extractdone"
    /\ UNCHANGED <<args, run, now, maxChunkChars, overlapChars, chunkIndex, start,
                   chunks, iters, exit, splitCall, prev, cut, outsideChunker>>

ExtractNext == ExtractCall

ExtractSpec == ExtractInit /\ [][ExtractNext]_vars

ContextInit ==
    /\ args = Args(<<>>, <<10, 15, <<1, 4>>>>)
    /\ pc = "context"
    /\ headings \in HeadingLists
    /\ ChunkerIdle
    /\ HeadingIdle
    /\ EmbedIdle
    /\ ServiceIdle

ContextCall ==
    /\ pc = "context"
    /\ \E p \in SamplePositions \cup {MaxOf(SamplePositions) + 1} :
           /\ position' = p
           /\ context' = GetHeadingContext(headings, p)
    /\ pc' = "contextdone"
    /\ UNCHANGED <<args, run, now, headings, maxChunkChars, overlapChars, chunkIndex,
                   start, chunks, iters, exit, splitCall, prev, cut, outsideHeading>>

ContextNext == ContextCall

ContextSpec == ContextInit /\ [][ContextNext]_vars

(***************************************************************************)
(* GetConfig and BatchEmbedChunks on their own                             *)
(***************************************************************************)
ConfigInit ==
    /\ args = Args(<<>>, <<10, 15, <<1, 4>>>>)
    /\ pc = "getconfig"
    /\ headings = <<>>
    /\ ChunkerIdle
    /\ HeadingIdle
    /\ EmbedIdle
    /\ flags \in FlagSets
    /\ env \in Environments
    /\ config = GetConfig(NoFlags, NoEnv, TRUE)
    /\ BatchIdle

GetConfigCall ==
    /\ pc = "getconfig"
    /\ \E getwdOk \in BOOLEAN : config' = GetConfig(flags, env, getwdOk)
    /\ pc' = "configdone"
    /\ UNCHANGED <<flags, env, embeddings, cursor, retry, ret, attempts, sleeps,
                   outsideService>>

ConfigNext == GetConfigCall

ConfigSpec == ConfigInit /\ [][ConfigNext]_vars

BatchInit ==
    /\ args = Args(<<>>, <<10, 15, <<1, 4>>>>)
    /\ pc = "batch"
    /\ headings = <<>>
    /\ run = 1
    /\ now = 0
    /\ maxChunkChars = 0
    /\ overlapChars = 0
    /\ chunkIndex = 0
    /\ start = 0
    /\ chunks \in BatchChunkLists
    /\ iters = 0
    /\ exit = "none"
    /\ splitCall = <<>>
    /\ prev = <<>>
    /\ cut = <<>>
    /\ HeadingIdle
    /\ EmbedIdle
    /\ flags \in {f \in FlagSets : f.modeGiven /\ f.ollamaURL = "" /\ f.embeddingModel = ""
                                     /\ f.dbPath = <<>>}
    /\ env = NoEnv
    /\ config = GetConfig(flags, env, TRUE)
    /\ BatchIdle

\* BatchEmbedChunks up to its first GetEmbedding call
BatchCall ==
    /\ pc = "batch"
    /\ embeddings' = <<>>
    /\ cursor' = 0
    /\ retry' = 0
    /\ IF Len(chunks) = 0
       THEN /\ ret' = [kind |-> "ok", embeddings |-> <<>>]
            /\ pc' = "batchdone"
       ELSE /\ pc' = "embed"
            /\ UNCHANGED ret
    /\ UNCHANGED <<flags, env, config, attempts, sleeps, outsideService>>

\* one GetEmbedding call and what follows it, up to the next call or the return
Attempt ==
    /\ pc = "embed"
    /\ \E ok \in IF config.EmbeddingMode = EmbeddingModeLocal THEN {TRUE} ELSE BOOLEAN :
        LET chunk == chunks[cursor + 1]
            maxRetries == MaxRetries(config)
        IN  /\ attempts' = Append(attempts, <<cursor, ok>>)
            /\ IF ok
               THEN /\ embeddings' = Store(embeddings, chunk.ID, VectorOf(chunk.Content))
                    /\ cursor' = cursor + 1
                    /\ retry' = 0
                    /\ IF cursor + 1 = Len(chunks)
                       THEN /\ ret' = [kind |-> "ok", embeddings |-> embeddings']
                            /\ pc' = "batchdone"
                            /\ UNCHANGED sleeps
                       ELSE /\ sleeps' =
                                   IF /\ (cursor + 1) % BatchSize = 0
                                      /\ config.EmbeddingMode # EmbeddingModeLocal
                                   THEN Append(sleeps, BatchSleepMillis)
                                   ELSE sleeps
                            /\ UNCHANGED <<ret, pc>>
               ELSE IF MoreAttempts(retry, maxRetries)
               THEN /\ sleeps' = Append(sleeps, (retry + 1) * RetrySleepMillis)
                    /\ retry' = retry + 1
                    /\ UNCHANGED <<embeddings, cursor, ret, pc>>
               ELSE /\ ret' = [kind |-> "error", chunk |-> chunk.ID, retries |-> maxRetries]
                    /\ pc' = "batchdone"
                    /\ UNCHANGED <<embeddings, cursor, retry, sleeps>>
    /\ UNCHANGED <<flags, env, config, outsideService>>

BatchNext == BatchCall \/ Attempt

BatchSpec == BatchInit /\ [][BatchNext]_vars

(***************************************************************************)
(* tokenize on its own: every text of TokenTexts                           *)
(***************************************************************************)
TokenizeInit ==
    /\ args = Args(<<>>, <<10, 15, <<1, 4>>>>)
    /\ pc = "tokenize"
    /\ headings = <<>>
    /\ ChunkerIdle
    /\ HeadingIdle
    /\ ServiceIdle
    /\ text \in TokenTexts
    /\ tokens = <<>>
    /\ call = 0
    /\ taken = <<>>
    /\ vector = <<>>
    /\ result = <<>>
    /\ first = <<>>
    /\ workers = <<>>
    /\ ToolIdle

TokenizeCall ==
    /\ pc = "tokenize"
    /\ tokens' = tokenize(text)
    /\ pc' = "tokenized"
    /\ UNCHANGED <<text, call, taken, vector, result, first, outsideEmbed>>

TokenizeNext == TokenizeCall

TokenizeSpec == TokenizeInit /\ [][TokenizeNext]_vars

(***************************************************************************)
(* GetLocalEmbedding on its own: every text of EmbedTexts, twice, the keys  *)
(* of the term-frequency map visited in any order                          *)
(***************************************************************************)
\* tf: the tokens that occur, each with the number of its occurrences
TermFrequency(toks) ==
    [term \in {toks[i] : i \in 1..Len(toks)} |->
        Cardinality({i \in 1..Len(toks) : toks[i] = term})]

\* the keys of tf the range loop has still to visit
Pending == DOMAIN TermFrequency(tokens) \ {taken[i] : i \in 1..Len(taken)}

\* the tokens as Go holds them: their bytes
TokenBytes(toks) == [i \in 1..Len(toks) |-> Bytes(toks[i])]

EmbedInit ==
    /\ args = Args(<<>>, <<10, 15, <<1, 4>>>>)
    /\ pc = "embed"
    /\ headings = <<>>
    /\ ChunkerIdle
    /\ HeadingIdle
    /\ ServiceIdle
    /\ text \in EmbedTexts
    /\ tokens = <<>>
    /\ call = 1
    /\ taken = <<>>
    /\ vector = <<>>
    /\ result = <<>>
    /\ first = <<>>
    /\ workers = <<>>
    /\ ToolIdle

\* as EmbedEmpty, but nothing is allocated for a text without tokens
EmbedEmpty_NoVector ==
    /\ pc = "embed"
    /\ tokenize(text) = <<>>
    /\ tokens' = <<>>
    /\ result' = <<>>
    /\ pc' = "returned"
    /\ UNCHANGED <<text, call, taken, vector, first, outsideEmbed>>

\* tokens := tokenize(text); no token: the zero vector is returned
EmbedEmpty ==
    /\ pc = "embed"
    /\ tokenize(text) = <<>>
    /\ tokens' = <<>>
    /\ result' = ZeroVector(LocalEmbeddingDimension)
    /\ pc' = "returned"
    /\ UNCHANGED <<text, call, taken, vector, first, outsideEmbed>>

\* tokens := tokenize(text); tf is counted and the accumulators are made
EmbedStart ==
    /\ pc = "embed"
    /\ tokenize(text) # <<>>
    /\ tokens' = tokenize(text)
    /\ vector' = ZeroVector(LocalEmbeddingDimension)
    /\ taken' = <<>>
    /\ pc' = "terms"
    /\ UNCHANGED <<text, call, result, first, outsideEmbed>>

\* one pass of the loop over tf: range takes any key it has not visited yet
EmbedTerm ==
    /\ pc = "terms"
    /\ \E term \in Pending :
          /\ vector' = AddTerm(vector, Bytes(term), TermFrequency(tokens)[term])
          /\ taken' = Append(taken, term)
    /\ UNCHANGED <<pc, text, tokens, call, result, first, outsideEmbed>>

\* the loop over the pairs of neighbouring tokens
EmbedBigrams ==
    /\ pc = "terms"
    /\ Pending = {}
    /\ vector' = AddBigrams(vector, TokenBytes(tokens), 0, Len(tokens) - 2)
    /\ pc' = "normalize"
    /\ UNCHANGED <<text, tokens, call, taken, result, first, outsideEmbed>>

\* l2Normalize, which leaves the accumulators as they are, and the conversion
\* to float32
EmbedNormalize ==
    /\ pc = "normalize"
    /\ result' = ToFloat32(l2Normalize(vector))
    /\ pc' = "returned"
    /\ UNCHANGED <<text, tokens, call, taken, vector, first, outsideEmbed>>

\* the caller keeps what the first call gave and calls again on the same text
EmbedAgain ==
    /\ pc = "returned"
    /\ call = 1
    /\ first' = [taken |-> taken, vector |-> vector, result |-> result]
    /\ call' = 2
    /\ tokens' = <<>>
    /\ taken' = <<>>
    /\ vector' = <<>>
    /\ result' = <<>>
    /\ pc' = "embed"
    /\ UNCHANGED <<text, outsideEmbed>>

EmbedNext ==
    \/ EmbedEmpty
    \/ EmbedStart
    \/ EmbedTerm
    \/ EmbedBigrams
    \/ EmbedNormalize
    \/ EmbedAgain

EmbedSpec == EmbedInit /\ [][EmbedNext]_vars

(***************************************************************************)
(* GetLocalEmbedding called twice on one text by a caller that keeps only   *)
(* the vector the first call returned, as TestGetLocalEmbedding_Deterministic *)
(* does                                                                    *)
(***************************************************************************)
RecallInit ==
    /\ args = Args(<<>>, <<10, 15, <<1, 4>>>>)
    /\ pc = "embed"
    /\ headings = <<>>
    /\ ChunkerIdle
    /\ HeadingIdle
    /\ ServiceIdle
    /\ text \in RecallTexts
    /\ tokens = <<>>
    /\ call = 1
    /\ taken = <<>>
    /\ vector = <<>>
    /\ result = <<>>
    /\ first = <<>>
    /\ workers = <<>>
    /\ ToolIdle

\* emb1 is kept, the locals of the first call are gone, and the function is
\* called again on the same text
EmbedRecall ==
    /\ pc = "returned"
    /\ call = 1
    /\ first' = [taken |-> <<>>, vector |-> <<>>, result |-> result]
    /\ call' = 2
    /\ tokens' = <<>>
    /\ taken' = <<>>
    /\ vector' = <<>>
    /\ result' = <<>>
    /\ pc' = "embed"
    /\ UNCHANGED <<text, outsideEmbed>>

RecallNext ==
    \/ EmbedEmpty
    \/ EmbedStart
    \/ EmbedTerm
    \/ EmbedBigrams
    \/ EmbedNormalize
    \/ EmbedRecall

RecallSpec == RecallInit /\ [][RecallNext]_vars

(***************************************************************************)
(* Concurrent invocations: two goroutines, each running one core operation  *)
(* on its own arguments with its own locals (a frame); they share nothing   *)
(* but the clock time.Now() reads                                           *)
(***************************************************************************)
\* the locals of a ChunkDocument invocation, at its entry
ChunkFrame(a) ==
    [pc |-> "call", args |-> a, headings |-> <<>>, maxChunkChars |-> 0,
     overlapChars |-> 0, chunkIndex |-> 0, start |-> 0, chunks |-> <<>>]

\* as ChunkStep, but the index of a chunk is drawn from a counter that all
\* invocations share (the clock stands for it)
ChunkStep_SharedIndex(f, t) ==
    IF f.pc = "call"
    THEN IF IsSmallDocument(f.args)
         THEN <<[f EXCEPT !.chunks = <<SingleChunk(f.args, t)>>, !.pc = "done"], t + 1>>
         ELSE <<[f EXCEPT !.headings = ExtractHeadings(f.args.content),
                          !.maxChunkChars = MaxChunkChars(f.args),
                          !.overlapChars = OverlapChars(MaxChunkChars(f.args),
                                                        f.args.chunkOverlapPercent),
                          !.pc = "loop"], t>>
    ELSE IF ~(f.start < Len(f.args.content)) \/ f.chunkIndex > ChunkCap
    THEN <<[f EXCEPT !.pc = "done"], t>>
    ELSE LET contentLen == Len(f.args.content)
             bestEnd == BestEnd(f.args.content, f.headings, f.start, f.maxChunkChars)
             nextStart == NextStart(f.start, bestEnd, f.maxChunkChars, f.overlapChars)
             chunk == LoopChunk(f.args, f.headings, t, f.start, bestEnd, t)
         IN  IF bestEnd < f.start \/ bestEnd > contentLen
             THEN <<[f EXCEPT !.pc = "panic"], t>>
             ELSE IF IsBlank(Slice(f.args.content, f.start, bestEnd))
             THEN <<[f EXCEPT !.start = bestEnd, !.chunkIndex = AfterSkip(f.chunkIndex)], t>>
             ELSE IF bestEnd >= contentLen \/ nextStart >= contentLen
             THEN <<[f EXCEPT !.chunks = Append(f.chunks, chunk), !.pc = "done"], t + 1>>
             ELSE <<[f EXCEPT !.chunks = Append(f.chunks, chunk), !.start = nextStart,
                              !.chunkIndex = f.chunkIndex + 1], t + 1>>

\* one step of ChunkDocument on its locals f with the clock at t: <<the locals,
\* the clock>> after it.  The steps are those of Call, LoopExit, CapExit and
\* Iterate.
ChunkStep(f, t) ==
    IF f.pc = "call"
    THEN IF IsSmallDocument(f.args)
         THEN <<[f EXCEPT !.chunks = <<SingleChunk(f.args, t)>>, !.pc = "done"], t + 1>>
         ELSE <<[f EXCEPT !.headings = ExtractHeadings(f.args.content),
                          !.maxChunkChars = MaxChunkChars(f.args),
                          !.overlapChars = OverlapChars(MaxChunkChars(f.args),
                                                        f.args.chunkOverlapPercent),
                          !.pc = "loop"], t>>
    ELSE IF ~(f.start < Len(f.args.content)) \/ f.chunkIndex > ChunkCap
    THEN <<[f EXCEPT !.pc = "done"], t>>
    ELSE LET contentLen == Len(f.args.content)
             bestEnd == BestEnd(f.args.content, f.headings, f.start, f.maxChunkChars)
             nextStart == NextStart(f.start, bestEnd, f.maxChunkChars, f.overlapChars)
             chunk == LoopChunk(f.args, f.headings, f.chunkIndex, f.start, bestEnd, t)
         IN  IF bestEnd < f.start \/ bestEnd > contentLen
             THEN <<[f EXCEPT !.pc = "panic"], t>>
             ELSE IF IsBlank(Slice(f.args.content, f.start, bestEnd))
             THEN <<[f EXCEPT !.start = bestEnd, !.chunkIndex = AfterSkip(f.chunkIndex)], t>>
             ELSE IF bestEnd >= contentLen \/ nextStart >= contentLen
             THEN <<[f EXCEPT !.chunks = Append(f.chunks, chunk), !.pc = "done"], t + 1>>
             ELSE <<[f EXCEPT !.chunks = Append(f.chunks, chunk), !.start = nextStart,
                              !.chunkIndex = f.chunkIndex + 1], t + 1>>

\* the locals of a GetLocalEmbedding invocation, at its entry
EmbedFrame(t) ==
    [pc |-> "call", text |-> t, tokens |-> <<>>, taken |-> <<>>, vector |-> <<>>,
     result |-> <<>>]

\* the keys of tf the range loop of the invocation has still to visit
PendingIn(f) == DOMAIN TermFrequency(f.tokens) \ {f.taken[i] : i \in 1..Len(f.taken)}

\* the locals after one step of GetLocalEmbedding on its locals f: the steps are
\* those of EmbedEmpty, EmbedStart, EmbedTerm, EmbedBigrams and EmbedNormalize
EmbedSteps(f) ==
    IF f.pc = "call"
    THEN IF tokenize(f.text) = <<>>
         THEN {[f EXCEPT !.result = ZeroVector(LocalEmbeddingDimension), !.pc = "done"]}
         ELSE {[f EXCEPT !.tokens = tokenize(f.text),
                         !.vector = ZeroVector(LocalEmbeddingDimension),
                         !.pc = "terms"]}
    ELSE IF f.pc = "terms" /\ PendingIn(f) # {}
    THEN {[f EXCEPT !.vector = AddTerm(f.vector, Bytes(term), TermFrequency(f.tokens)[term]),
                    !.taken = Append(f.taken, term)] : term \in PendingIn(f)}
    ELSE IF f.pc = "terms"
    THEN {[f EXCEPT !.vector = AddBigrams(f.vector, TokenBytes(f.tokens), 0,
                                          Len(f.tokens) - 2),
                    !.pc = "normalize"]}
    ELSE {[f EXCEPT !.result = ToFloat32(l2Normalize(f.vector)), !.pc = "done"]}

\* the operations that return in one step
PureOps == {"ExtractHeadings", "GetHeadingContext", "FindBestSplitPoint", "tokenize"}

PureFrame(in) == [pc |-> "call", input |-> in, result |-> <<>>]

PureStep(op, f) ==
    [f EXCEPT !.pc = "done",
              !.result = CASE op = "ExtractHeadings" -> ExtractHeadings(f.input)
                           [] op = "GetHeadingContext" -> GetHeadingContext(f.input[1], f.input[2])
                           [] op = "FindBestSplitPoint" -> FindBestSplitPoint(f.input[1], f.input[2])
                           [] op = "tokenize" -> tokenize(f.input)]

\* an invocation is over
Over(f) == f.pc \in {"done", "panic"}

\* what an invocation gives back, the chunks without their time stamps
Outcome(op, f) ==
    IF op = "ChunkDocument"
    THEN [i \in 1..Len(f.chunks) |->
             [k \in (DOMAIN f.chunks[i]) \ {"CreatedAt"} |-> f.chunks[i][k]]]
    ELSE f.result

\* the steps an invocation can take with the clock at t
Steps(op, f, t) ==
    IF op = "ChunkDocument" THEN {ChunkStep(f, t)}
    ELSE IF op = "GetLocalEmbedding" THEN {<<g, t>> : g \in EmbedSteps(f)}
    ELSE {<<PureStep(op, f), t>>}

\* what the invocation can give back when nothing else runs
RECURSIVE RunAlone(_, _, _)
RunAlone(op, f, t) ==
    IF Over(f) THEN {Outcome(op, f)}
    ELSE UNION {RunAlone(op, s[1], s[2]) : s \in Steps(op, f, t)}

\* the invocations the goroutines make: <<operation, its locals at entry>>
Jobs ==
    {<<"ChunkDocument", ChunkFrame(Args(HeadingDoc2, <<3, 50, <<1, 1>>>>))>>,
     <<"ChunkDocument", ChunkFrame(Args(SentenceHeadingDoc, <<2, 0, <<1, 1>>>>))>>,
     <<"ChunkDocument", ChunkFrame(Args(<<"a">>, <<10, 15, <<1, 4>>>>))>>,
     <<"ExtractHeadings", PureFrame(HeadingDoc2)>>,
     <<"GetHeadingContext", PureFrame(<<ExtractHeadings(HeadingDoc2), 9>>)>>,
     <<"FindBestSplitPoint", PureFrame(<<EarlySentenceDoc, 10>>)>>,
     <<"tokenize", PureFrame(<<"T", "h", "e", SP, "g", "o", SP, "g", "o">>)>>,
     <<"GetLocalEmbedding", EmbedFrame(<<>>)>>,
     <<"GetLocalEmbedding", EmbedFrame(<<"g", "o", SP, "o", "x">>)>>}

Goroutine(job) ==
    [op |-> job[1], frame |-> job[2], alone |-> RunAlone(job[1], job[2], 0)]

ConcInit ==
    /\ args = Args(<<>>, <<10, 15, <<1, 4>>>>)
    /\ pc = "go"
    /\ headings = <<>>
    /\ ChunkerIdle
    /\ HeadingIdle
    /\ ServiceIdle
    /\ text = <<>>
    /\ tokens = <<>>
    /\ call = 0
    /\ taken = <<>>
    /\ vector = <<>>
    /\ result = <<>>
    /\ first = <<>>
    /\ workers \in {<<Goroutine(a), Goroutine(b)>> : a \in Jobs, b \in Jobs}
    /\ ToolIdle

\* a goroutine inside ChunkDocument takes a step; time.Now() reads the clock
ChunkWorker ==
    \E i \in DOMAIN workers :
        /\ workers[i].op = "ChunkDocument"
        /\ ~Over(workers[i].frame)
        /\ workers' = [workers EXCEPT ![i].frame = ChunkStep(workers[i].frame, now)[1]]
        /\ now' = ChunkStep(workers[i].frame, now)[2]
        /\ UNCHANGED outsideWorkers

\* a goroutine inside GetLocalEmbedding takes a step
EmbedWorker ==
    \E i \in DOMAIN workers :
        /\ workers[i].op = "GetLocalEmbedding"
        /\ ~Over(workers[i].frame)
        /\ \E g \in EmbedSteps(workers[i].frame) :
               workers' = [workers EXCEPT ![i].frame = g]
        /\ UNCHANGED <<now, outsideWorkers>>

\* a goroutine runs ExtractHeadings, GetHeadingContext, FindBestSplitPoint or
\* tokenize
PureWorker ==
    \E i \in DOMAIN workers :
        /\ workers[i].op \in PureOps
        /\ ~Over(workers[i].frame)
        /\ workers' = [workers EXCEPT ![i].frame = PureStep(workers[i].op, workers[i].frame)]
        /\ UNCHANGED <<now, outsideWorkers>>

ConcNext == ChunkWorker \/ EmbedWorker \/ PureWorker

ConcSpec == ConcInit /\ [][ConcNext]_vars

(***************************************************************************)
(* IndexDocuments: runs over a directory of three files, two of them        *)
(* markdown, edited between the runs; the embedding provider and the        *)
(* creation of the database file may fail                                   *)
(***************************************************************************)
MaxRuns == 2

\* "/a.md", "/b.MD" and "/n.txt", in the lexical order filepath.Walk visits them
WalkOrder ==
    << <<"/", "a", ".", "m", "d">>,
       <<"/", "b", ".", "M", "D">>,
       <<"/", "n", ".", "t", "x", "t">> >>

\* the contents a markdown file can have: "a", "a.\n# a" and "# a\n## b"
FileContents == {<<"a">>, SentenceHeadingDoc, SubHeadingDoc}

Disks ==
    {[p \in {WalkOrder[i] : i \in 1..3} |->
         IF p = WalkOrder[1] THEN a ELSE IF p = WalkOrder[2] THEN b ELSE <<"a">>] :
     a \in FileContents, b \in FileContents}

\* maxTokensPerChunk, chunkOverlapPercent, approxTokensPerChar of the runs
IndexParams == <<2, 0, <<1, 1>>>>

\* hex.EncodeToString of sha256.Sum256(content), for the contents of FileContents
Sha256Hex(content) ==
    CASE content = <<"a">> ->
             "ca978112ca1bbdcafac231b39a23dc4da786eff8147c4e72b9807785afee48bb"
      [] content = SentenceHeadingDoc ->
             "90bc4bd614c42763c9b688ad63e4eb878913bad06b24c3c76c49e6035c7c6ddf"
      [] content = SubHeadingDoc ->
             "4ce47f5f9a97584c1b0862214802e6daab55f96a18fb4ea43b0be29fdd82c317"

\* strings.HasSuffix
HasSuffix(str, suffix) ==
    /\ Len(str) >= Len(suffix)
    /\ SubSeq(str, Len(str) - Len(suffix) + 1, Len(str)) = suffix

\* the walk: the paths that end in ".md" whatever the case, from place i on
RECURSIVE Walk(_, _)
Walk(d, i) ==
    IF i > Len(WalkOrder) THEN <<>>
    ELSE IF WalkOrder[i] \in DOMAIN d /\ HasSuffix(ToLower(WalkOrder[i]), <<".", "m", "d">>)
         THEN <<WalkOrder[i]>> \o Walk(d, i + 1)
         ELSE Walk(d, i + 1)

\* no database file, and a file ImportFromReader fails on
Missing == [kind |-> "missing"]
Corrupt == [kind |-> "corrupt"]

\* the file ExportToWriter writes for the documents
Exported(documents) == [kind |-> "database", documents |-> documents]

\* the database after the load: the documents of the file, or a fresh database
\* when there is no file or the import fails
LoadDatabase(file) == IF file.kind = "database" THEN file.documents ELSE {}

\* strings.Join(chunk.HeadingPath, " > ")
RECURSIVE JoinHeadingPath(_)
JoinHeadingPath(path) ==
    IF path = <<>> THEN <<>>
    ELSE IF Len(path) = 1 THEN path[1]
    ELSE path[1] \o <<SP, ">", SP>> \o JoinHeadingPath(Tail(path))

\* ChunkDocument run to its end on the locals f, the clock at t: the locals
RECURSIVE ChunkRun(_, _)
ChunkRun(f, t) ==
    IF Over(f) THEN f
    ELSE Only({ChunkRun(after[1], after[2]) : after \in {ChunkStep(f, t)}})

\* the arguments IndexDocuments gives ChunkDocument for a file
IndexArgs(filePath, content) ==
    [filePath            |-> filePath,
     content             |-> content,
     fileHash            |-> Sha256Hex(content),
     maxTokensPerChunk   |-> IndexParams[1],
     chunkOverlapPercent |-> IndexParams[2],
     approxTokensPerChar |-> IndexParams[3]]

\* the document added for a chunk (the time stamps are left out)
ChunkDocumentEntry(chunk, content, embedding) ==
    [ID        |-> chunk.ID,
     Metadata  |-> [file_path    |-> chunk.FilePath,
                    file_hash    |-> chunk.FileHash,
                    chunk_index  |-> Itoa(chunk.ChunkIndex),
                    file_size    |-> Itoa(Len(content)),
                    start_offset |-> Itoa(chunk.StartOffset),
                    end_offset   |-> Itoa(chunk.EndOffset),
                    token_count  |-> Itoa(chunk.TokenCount),
                    heading_path |-> JoinHeadingPath(chunk.HeadingPath),
                    is_chunk     |-> "true"],
     Embedding |-> embedding,
     Content   |-> chunk.Content]

\* the document added for a small file (the time stamps are left out)
FileDocumentEntry(filePath, content, embedding) ==
    [ID        |-> Sha256Hex(content),
     Metadata  |-> [file_path    |-> filePath,
                    file_hash    |-> Sha256Hex(content),
                    chunk_index  |-> "0",
                    file_size    |-> Itoa(Len(content)),
                    start_offset |-> "0",
                    end_offset   |-> Itoa(Len(content)),
                    token_count  |-> Itoa(EstimateTokenCount(content, IndexParams[3])),
                    heading_path |-> <<>>,
                    is_chunk     |-> "false"],
     Embedding |-> embedding,
     Content   |-> content]

\* mutant: the document takes the place of those of the same file path
AddDocument_ByPath(coll, doc) ==
    {d \in coll : d.Metadata.file_path # doc.Metadata.file_path
                   \/ (d.Metadata.file_hash = doc.Metadata.file_hash /\ d.ID # doc.ID)}
    \cup {doc}

\* collection.AddDocument: the document takes the place of one of the same ID
AddDocument(coll, doc) == {d \in coll : d.ID # doc.ID} \cup {doc}

\* what BatchEmbedChunks can return for the chunks: an embedding for the ID of
\* every chunk, or the error of the chunk the provider failed on
BatchReturns(list) ==
    {[kind |-> "ok",
      embeddings |-> [id \in {list[i].ID : i \in 1..Len(list)} |->
                         VectorOf((CHOOSE c \in {list[i] : i \in 1..Len(list)} :
                                      c.ID = id).Content)]]}
    \cup {[kind |-> "error", chunk |-> list[j].ID] : j \in 1..Len(list)}

\* the loop over the chunks: chunks i.. added to the collection
RECURSIVE AddChunks(_, _, _, _, _)
AddChunks(coll, list, content, vectors, i) ==
    IF i > Len(list) THEN coll
    ELSE IF list[i].ID \notin DOMAIN vectors
         THEN AddChunks(coll, list, content, vectors, i + 1)
         ELSE AddChunks(AddDocument(coll, ChunkDocumentEntry(list[i], content,
                                                              vectors[list[i].ID])),
                        list, content, vectors, i + 1)

\* mutant: the chunks before the failing one are added
AfterBatch_Partial(coll, list, content, r) ==
    IF r.kind = "ok" THEN AddChunks(coll, list, content, r.embeddings, 1)
    ELSE LET before == {i \in 1..Len(list) : \A j \in 1..i : list[j].ID # r.chunk}
         IN  AddChunks(coll, list, content,
                       [id \in {list[i].ID : i \in before} |-> VectorOf(<<>>)], 1)

\* the collection after BatchEmbedChunks returned r for the chunks of a file
AfterBatch(coll, list, content, r) ==
    IF r.kind = "ok" THEN AddChunks(coll, list, content, r.embeddings, 1) ELSE coll

IndexInit ==
    /\ args = Args(<<>>, <<10, 15, <<1, 4>>>>)
    /\ pc = "index"
    /\ headings = <<>>
    /\ ChunkerIdle
    /\ HeadingIdle
    /\ ServiceIdle
    /\ text = <<>>
    /\ tokens = <<>>
    /\ call = 0
    /\ taken = <<>>
    /\ vector = <<>>
    /\ result = <<>>
    /\ first = <<>>
    /\ workers = <<>>
    /\ disk \in Disks
    /\ dbFile \in {Missing, Corrupt}
    /\ collection = {}
    /\ loaded = {}
    /\ mdFiles = <<>>
    /\ fileIdx = 0
    /\ warnings = <<>>
    /\ indexRun = 1
    /\ request = <<>>
    /\ response = <<>>
    /\ results = <<>>
    /\ fileResults = <<>>

\* IndexDocuments up to its loop: the database loaded, the files found
IndexLoad ==
    /\ pc = "index"
    /\ collection' = LoadDatabase(dbFile)
    /\ loaded' = LoadDatabase(dbFile)
    /\ mdFiles' = Walk(disk, 1)
    /\ fileIdx' = 0
    /\ warnings' = <<>>
    /\ pc' = "files"
    /\ UNCHANGED <<disk, dbFile, indexRun, request, response, results, fileResults>>
    /\ UNCHANGED <<chunkerVars, headingVars, serviceVars, embedVars, workers>>

\* one pass of the loop over mdFiles
IndexFile ==
    /\ pc = "files"
    /\ fileIdx < Len(mdFiles)
    /\ LET filePath == mdFiles[fileIdx + 1]
           content == disk[filePath]
           a == IndexArgs(filePath, content)
       IN  IF EstimateTokenCount(content, IndexParams[3]) > IndexParams[1]
           THEN LET f == ChunkRun(ChunkFrame(a), 0)
                IN  IF f.pc = "panic"
                    THEN /\ pc' = "panic"
                         /\ UNCHANGED <<collection, warnings, fileIdx>>
                    ELSE \E r \in BatchReturns(f.chunks) :
                             /\ collection' = AfterBatch(collection, f.chunks, content, r)
                             /\ warnings' = IF r.kind = "ok" THEN warnings
                                            ELSE Append(warnings, filePath)
                             /\ fileIdx' = fileIdx + 1
                             /\ pc' = pc
           ELSE \E ok \in BOOLEAN :
                    /\ collection' =
                           IF ok
                           THEN AddDocument(collection,
                                            FileDocumentEntry(filePath, content, VectorOf(content)))
                           ELSE collection
                    /\ warnings' = IF ok THEN warnings ELSE Append(warnings, filePath)
                    /\ fileIdx' = fileIdx + 1
                    /\ pc' = pc
    /\ UNCHANGED <<disk, dbFile, loaded, mdFiles, indexRun, request, response, results,
                   fileResults>>
    /\ UNCHANGED <<chunkerVars, headingVars, serviceVars, embedVars, workers>>

\* after the loop: the database file created and written, or not created
IndexSave ==
    /\ pc = "files"
    /\ fileIdx = Len(mdFiles)
    /\ \E created \in BOOLEAN :
           IF created
           THEN dbFile' = Exported(collection) /\ pc' = "saved"
           ELSE dbFile' = dbFile /\ pc' = "error"
    /\ UNCHANGED <<disk, collection, loaded, mdFiles, fileIdx, warnings, indexRun,
                   request, response, results, fileResults>>
    /\ UNCHANGED <<chunkerVars, headingVars, serviceVars, embedVars, workers>>

\* the files are edited and the program is started again to run IndexDocuments
IndexAgain ==
    /\ pc \in {"saved", "error"}
    /\ indexRun < MaxRuns
    /\ disk' \in Disks
    /\ indexRun' = indexRun + 1
    /\ pc' = "index"
    /\ collection' = {}
    /\ loaded' = {}
    /\ mdFiles' = <<>>
    /\ fileIdx' = 0
    /\ warnings' = <<>>
    /\ UNCHANGED <<dbFile, request, response, results, fileResults>>
    /\ UNCHANGED <<chunkerVars, headingVars, serviceVars, embedVars, workers>>

IndexNext == IndexLoad \/ IndexFile \/ IndexSave \/ IndexAgain

IndexSpec == IndexInit /\ [][IndexNext]_vars

(***************************************************************************)
(* MCPRetrieveFileContent on its own: a file of every content of            *)
(* RetrieveDocs, every pair of offsets around it, and the offsets of the    *)
(* chunks ChunkDocument cuts it into                                        *)
(***************************************************************************)
\* how far below 0 and beyond the length of the file the offsets go
OffsetMargin == 2

RetrievePath == <<"/", "a", ".", "m", "d">>
MissingPath == <<"/", "z", ".", "m", "d">>

RetrieveDocs ==
    {<<>>, <<"a">>, HeadingDoc1, HeadingDoc2, EarlySentenceDoc, TrailingBlankDoc,
     SentenceHeadingDoc, SubHeadingDoc}

\* a *int argument: nil, or a pointer to n
NilOffset == [given |-> FALSE, value |-> 0]
OffsetTo(n) == [given |-> TRUE, value |-> n]

OffsetsAround(content) ==
    {NilOffset} \cup {OffsetTo(n) : n \in (0 - OffsetMargin)..(Len(content) + OffsetMargin)}

\* mutant: the end offset taken as the index of the last character wanted
MCPRetrieveFileContent_InclusiveEnd(d, filePath, startOffset, endOffset) ==
    IF filePath \notin DOMAIN d
    THEN [content |-> <<>>, err |-> "file not found"]
    ELSE LET contentStr == d[filePath]
             contentLen == Len(contentStr)
             given == IF startOffset.given
                      THEN IF startOffset.value < 0 THEN 0
                           ELSE IF startOffset.value > contentLen THEN contentLen
                           ELSE startOffset.value
                      ELSE 0
             end == IF endOffset.given
                    THEN IF endOffset.value + 1 < 0 THEN 0
                         ELSE IF endOffset.value + 1 > contentLen THEN contentLen
                         ELSE endOffset.value + 1
                    ELSE contentLen
             from == IF given > end THEN end ELSE given
         IN  [content |-> Slice(contentStr, from, end), err |-> "nil"]

\* MCPRetrieveFileContent on the files d: the string and the error returned
MCPRetrieveFileContent(d, filePath, startOffset, endOffset) ==
    IF filePath \notin DOMAIN d
    THEN [content |-> <<>>, err |-> "file not found"]
    ELSE LET contentStr == d[filePath]
             contentLen == Len(contentStr)
             given == IF startOffset.given
                      THEN IF startOffset.value < 0 THEN 0
                           ELSE IF startOffset.value > contentLen THEN contentLen
                           ELSE startOffset.value
                      ELSE 0
             end == IF endOffset.given
                    THEN IF endOffset.value < 0 THEN 0
                         ELSE IF endOffset.value > contentLen THEN contentLen
                         ELSE endOffset.value
                    ELSE contentLen
             from == IF given > end THEN end ELSE given
         IN  [content |-> Slice(contentStr, from, end), err |-> "nil"]

RetrieveInit ==
    /\ args = Args(<<>>, <<10, 15, <<1, 4>>>>)
    /\ pc = "retrieve"
    /\ headings = <<>>
    /\ ChunkerIdle
    /\ HeadingIdle
    /\ ServiceIdle
    /\ text = <<>>
    /\ tokens = <<>>
    /\ call = 0
    /\ taken = <<>>
    /\ vector = <<>>
    /\ result = <<>>
    /\ first = <<>>
    /\ workers = <<>>
    /\ disk \in {[p \in {RetrievePath} |-> d] : d \in RetrieveDocs}
    /\ dbFile = [kind |-> "missing"]
    /\ collection = {}
    /\ loaded = {}
    /\ mdFiles = <<>>
    /\ fileIdx = 0
    /\ warnings = <<>>
    /\ indexRun = 0
    /\ request = <<>>
    /\ response = <<>>
    /\ results = <<>>
    /\ fileResults = <<>>

\* a call with offsets of the caller's choice
RetrieveRange ==
    /\ pc = "retrieve"
    /\ \E filePath \in {RetrievePath, MissingPath} :
       \E startOffset \in OffsetsAround(disk[RetrievePath]) :
       \E endOffset \in OffsetsAround(disk[RetrievePath]) :
           /\ request' = [filePath |-> filePath, startOffset |-> startOffset,
                          endOffset |-> endOffset]
           /\ response' = MCPRetrieveFileContent(disk, filePath, startOffset, endOffset)
    /\ pc' = "retrieved"
    /\ UNCHANGED <<disk, dbFile, collection, loaded, mdFiles, fileIdx, warnings, indexRun,
                   results, fileResults>>
    /\ UNCHANGED <<chunkerVars, headingVars, serviceVars, embedVars, workers>>

\* the file is chunked, and a call is made with the offsets of one of the chunks
\* (with maxChunkChars 0 ChunkDocument returns no chunk list for such a file)
RetrieveChunk ==
    /\ pc = "retrieve"
    /\ \E c \in {k \in Configs : MaxChunkChars(Args(<<>>, k)) > 0} :
           LET f == ChunkRun(ChunkFrame(Args(disk[RetrievePath], c)), 0)
           IN  /\ f.pc = "done"
               /\ chunks' = f.chunks
               /\ \E i \in 1..Len(f.chunks) :
                      /\ request' = [filePath |-> RetrievePath,
                                     startOffset |-> OffsetTo(f.chunks[i].StartOffset),
                                     endOffset |-> OffsetTo(f.chunks[i].EndOffset)]
                      /\ response' = MCPRetrieveFileContent(disk, RetrievePath,
                                         OffsetTo(f.chunks[i].StartOffset),
                                         OffsetTo(f.chunks[i].EndOffset))
    /\ pc' = "retrieved"
    /\ UNCHANGED <<args, run, now, headings, maxChunkChars, overlapChars, chunkIndex,
                   start, iters, exit, splitCall, prev, cut>>
    /\ UNCHANGED <<disk, dbFile, collection, loaded, mdFiles, fileIdx, warnings, indexRun,
                   results, fileResults>>
    /\ UNCHANGED <<headingVars, serviceVars, embedVars, workers>>

RetrieveNext == RetrieveRange \/ RetrieveChunk

RetrieveSpec == RetrieveInit /\ [][RetrieveNext]_vars

(***************************************************************************)
(* groupResultsByFile on its own: every list of at most MaxResults search   *)
(* results in the order the query returns them, most similar first.  The    *)
(* order sort.Slice leaves equal elements in, and the order of the range    *)
(* over fileMap, are free.                                                  *)
(***************************************************************************)
MaxResults == 3

ResultPaths == {"/docs/a.md", "/docs/b.md"}

\* the similarity scores, as ranks: a higher number is a higher score
Similarities == 1..3

\* the results of a search: a whole file starts at 0, a chunk where it was cut
SearchResults ==
    {[FilePath |-> p, Similarity |-> sim, IsChunk |-> FALSE, StartOffset |-> 0] :
         p \in ResultPaths, sim \in Similarities}
    \cup {[FilePath |-> p, Similarity |-> sim, IsChunk |-> TRUE, StartOffset |-> off] :
              p \in ResultPaths, sim \in Similarities, off \in {0, 5}}

RECURSIVE ResultListsOf(_)
ResultListsOf(n) ==
    IF n = 0 THEN {<<>>}
    ELSE UNION {{Append(l, r) :
                     r \in {x \in SearchResults :
                                \A i \in 1..(n - 1) : l[i].Similarity >= x.Similarity}} :
                l \in ResultListsOf(n - 1)}

\* the query returns at least one result
ResultLists == UNION {ResultListsOf(n) : n \in 1..MaxResults}

\* the orders of n elements
Orders(n) == {p \in [1..n -> 1..n] : \A i \in 1..n : \E j \in 1..n : p[j] = i}

\* sort.Slice: the orders of the list that the less function allows
SortSlice(list, less(_, _)) ==
    {sorted \in {[i \in 1..Len(list) |-> list[p[i]]] : p \in Orders(Len(list))} :
         \A i \in 1..Len(list) : \A j \in (i + 1)..Len(list) : ~less(sorted[j], sorted[i])}

\* the less function of the chunks of a file
ChunkLess(a, b) ==
    IF a.IsChunk /\ b.IsChunk THEN a.StartOffset < b.StartOffset
    ELSE IF ~a.IsChunk /\ b.IsChunk THEN TRUE
    ELSE IF a.IsChunk /\ ~b.IsChunk THEN FALSE
    ELSE a.Similarity > b.Similarity

\* mutant: the files compared by the best score among their chunks
FileLess_BestScore(a, b) ==
    MaxOf({a.Chunks[i].Similarity : i \in 1..Len(a.Chunks)})
        > MaxOf({b.Chunks[i].Similarity : i \in 1..Len(b.Chunks)})

\* the less function of the files
FileLess(a, b) == a.Chunks[1].Similarity > b.Chunks[1].Similarity

\* fileMap[filePath]
ResultsOf(list, filePath) ==
    LET Same(r) == r.FilePath = filePath
    IN  SelectSeq(list, Same)

\* what groupResultsByFile can return
groupResultsByFile(list) ==
    LET paths == {list[i].FilePath : i \in 1..Len(list)}
        sortings == {g \in [paths -> UNION {SortSlice(ResultsOf(list, p), ChunkLess) : p \in paths}] :
                         \A p \in paths : g[p] \in SortSlice(ResultsOf(list, p), ChunkLess)}
        ranged == {q \in [1..Cardinality(paths) -> paths] :
                       \A p \in paths : \E i \in 1..Cardinality(paths) : q[i] = p}
    IN  UNION {UNION {SortSlice([i \in 1..Cardinality(paths) |->
                                     [FilePath |-> q[i], Chunks |-> g[q[i]]]], FileLess) :
                          q \in ranged} :
                   g \in sortings}

GroupInit ==
    /\ args = Args(<<>>, <<10, 15, <<1, 4>>>>)
    /\ pc = "group"
    /\ headings = <<>>
    /\ ChunkerIdle
    /\ HeadingIdle
    /\ ServiceIdle
    /\ text = <<>>
    /\ tokens = <<>>
    /\ call = 0
    /\ taken = <<>>
    /\ vector = <<>>
    /\ result = <<>>
    /\ first = <<>>
    /\ workers = <<>>
    /\ disk = <<>>
    /\ dbFile = [kind |-> "missing"]
    /\ collection = {}
    /\ loaded = {}
    /\ mdFiles = <<>>
    /\ fileIdx = 0
    /\ warnings = <<>>
    /\ indexRun = 0
    /\ request = <<>>
    /\ response = <<>>
    /\ results \in ResultLists
    /\ fileResults = <<>>

GroupCall ==
    /\ pc = "group"
    /\ fileResults' \in groupResultsByFile(results)
    /\ pc' = "grouped"
    /\ UNCHANGED <<disk, dbFile, collection, loaded, mdFiles, fileIdx, warnings, indexRun,
                   request, response, results>>
    /\ UNCHANGED <<chunkerVars, headingVars, serviceVars, embedVars, workers>>

GroupNext == GroupCall

GroupSpec == GroupInit /\ [][GroupNext]_vars

(***************************************************************************)
(* Properties                                                              *)
(***************************************************************************)
Returned == pc = "done"

ContentLen == Len(args.content)

\* the document's token estimate, floor(len(content) * charsPerToken)
TokenEstimate == (ContentLen * args.approxTokensPerChar[1]) \div args.approxTokensPerChar[2]

FitsOneChunk == TokenEstimate <= args.maxTokensPerChunk

HasNonSpace(s) == \E i \in 1..Len(s) : s[i] \notin {SP, NL, "\t", "\r"}

LastChunk == chunks[Len(chunks)]

\* a chunk without its creation time
Stable(c) == [f \in (DOMAIN c) \ {"CreatedAt"} |-> c[f]]

StableList(cs) == [i \in 1..Len(cs) |-> Stable(cs[i])]

\* C1: a document whose token estimate is at most maxTokensPerChunk comes back
\* as exactly one chunk: the whole document, chunkIndex 0, offsets 0 and
\* len(content).
C1_SmallDocumentOneChunk ==
    (Returned /\ FitsOneChunk) =>
        /\ Len(chunks) = 1
        /\ chunks[1].Content = args.content
        /\ chunks[1].ChunkIndex = 0
        /\ chunks[1].StartOffset = 0
        /\ chunks[1].EndOffset = ContentLen

\* a non-empty document whose estimate equals the budget has been returned
C1_Witness ==
    /\ Returned
    /\ TokenEstimate = args.maxTokensPerChunk
    /\ ContentLen > 1
    /\ Len(chunks) = 1

\* C2: the chunk ranges cover the document without gaps: the first chunk
\* starts at 0, every next chunk starts at or before the end of the one
\* before it, and every character position lies in some chunk.
C2_Coverage ==
    Returned =>
        /\ chunks # <<>> => chunks[1].StartOffset = 0
        /\ \A i \in 1..(Len(chunks) - 1) : chunks[i + 1].StartOffset <= chunks[i].EndOffset
        /\ \A p \in 0..(ContentLen - 1) :
               \E i \in 1..Len(chunks) :
                   chunks[i].StartOffset <= p /\ p < chunks[i].EndOffset

\* the loss is not limited to skipped whitespace: a run that ended with a
\* chunk reaching the end of the document left a non-whitespace character in
\* no chunk (reachable: the jump of minProgress past bestEnd)
C2_CharacterLost ==
    /\ Returned
    /\ exit = "last"
    /\ \E p \in 0..(ContentLen - 1) :
           /\ ~IsSpace(At(args.content, p))
           /\ \A i \in 1..Len(chunks) :
                  ~(chunks[i].StartOffset <= p /\ p < chunks[i].EndOffset)

\* C3: the i-th chunk of the list (0-based) has chunkIndex i; a skipped
\* whitespace-only slice does not advance the index.
C3_MonotonicIndex ==
    \A i \in 1..Len(chunks) : chunks[i].ChunkIndex = i - 1

\* several chunks were returned, the first one after a skipped slice
C3_Witness ==
    /\ Returned
    /\ Len(chunks) >= 2
    /\ chunks[1].StartOffset > 0

\* C4, as stated: every chunk has 0 <= startOffset < endOffset <= len(source)
\* and content = source[startOffset:endOffset], on both paths.
C4_OffsetsStrict ==
    \A i \in 1..Len(chunks) :
        /\ 0 <= chunks[i].StartOffset
        /\ chunks[i].StartOffset < chunks[i].EndOffset
        /\ chunks[i].EndOffset <= ContentLen
        /\ chunks[i].Content = Slice(args.content, chunks[i].StartOffset, chunks[i].EndOffset)

\* C4, amended: every chunk has 0 <= startOffset <= endOffset <= len(source)
\* and content = source[startOffset:endOffset]; startOffset < endOffset except
\* for the single chunk of the empty document.
C4_Offsets ==
    \A i \in 1..Len(chunks) :
        /\ 0 <= chunks[i].StartOffset
        /\ chunks[i].StartOffset <= chunks[i].EndOffset
        /\ chunks[i].EndOffset <= ContentLen
        /\ chunks[i].Content = Slice(args.content, chunks[i].StartOffset, chunks[i].EndOffset)
        /\ chunks[i].StartOffset < chunks[i].EndOffset \/ ContentLen = 0

\* the loop has emitted a chunk that starts and ends inside the document,
\* with whitespace at its edge
C4_Witness ==
    /\ Returned
    /\ Len(chunks) >= 2
    /\ chunks[2].StartOffset > 0
    /\ chunks[1].EndOffset < ContentLen
    /\ IsSpace(At(args.content, chunks[1].EndOffset - 1))

\* C5, as stated: every chunk holds a non-whitespace character, and a
\* document of whitespace only (or the empty one) yields zero chunks whatever
\* its size.
C5_NeverBlank ==
    /\ \A i \in 1..Len(chunks) : HasNonSpace(chunks[i].Content)
    /\ (Returned /\ ~HasNonSpace(args.content)) => chunks = <<>>

\* C5, amended: on the loop path (token estimate above maxTokensPerChunk)
\* every chunk holds a non-whitespace character and a whitespace-only document
\* yields zero chunks; a document that fits one chunk comes back as one chunk
\* even when it is empty or whitespace only.
C5_NeverBlankInLoop ==
    IF FitsOneChunk
    THEN Returned => Len(chunks) = 1
    ELSE /\ \A i \in 1..Len(chunks) : HasNonSpace(chunks[i].Content)
         /\ (Returned /\ ~HasNonSpace(args.content)) => chunks = <<>>

\* a chunk was emitted after the loop skipped a whitespace-only slice
C5_Witness ==
    /\ Returned
    /\ ~FitsOneChunk
    /\ chunks # <<>>
    /\ chunks[1].StartOffset > 0
    /\ ~HasNonSpace(Slice(args.content, 0, chunks[1].StartOffset))

\* C6, as stated: whenever the list is not empty, the last chunk ends at
\* len(content), however the run ended.
C6_LastEndsAtLen ==
    (Returned /\ chunks # <<>>) => LastChunk.EndOffset = ContentLen

\* C6, amended: whenever the list is not empty, the last chunk ends at
\* len(content), unless the loop ended by its condition (after skipping a
\* trailing whitespace-only slice) or by the chunk cap.
C6_LastEndsAtLenUnlessCut ==
    (Returned /\ chunks # <<>> /\ exit \notin {"cond", "cap"}) =>
        LastChunk.EndOffset = ContentLen

\* the loop returned several chunks, the last one reaching the end
C6_Witness ==
    /\ Returned
    /\ exit = "last"
    /\ Len(chunks) >= 2
    /\ LastChunk.EndOffset = ContentLen

\* C7: startOffset is strictly increasing along the list.
C7_StartStrictlyIncreasing ==
    \A i \in 1..(Len(chunks) - 1) : chunks[i + 1].StartOffset > chunks[i].StartOffset

\* C8: ChunkDocument terminates without failing: every pass through the loop
\* either returns or advances start or chunkIndex, the two quantities the loop
\* condition and the cap bound (a pass that advances neither leaves the
\* loop's state as it was, so the loop never ends).
C8_Terminates ==
    [][pc = "loop" => (pc' = "done" \/ start' > start \/ chunkIndex' > chunkIndex)]_vars

\* C9: the ids of one result are pairwise distinct, each is
\* sourceHash + "_" + chunkIndex, and a second invocation with the same
\* arguments returns the same chunks but for createdAt.
C9_StableIDs ==
    /\ \A i, j \in 1..Len(chunks) : i # j => chunks[i].ID # chunks[j].ID
    /\ \A i \in 1..Len(chunks) :
           chunks[i].ID = args.fileHash \o "_" \o Itoa(chunks[i].ChunkIndex)
    /\ (Returned /\ run = 2) => StableList(chunks) = StableList(prev)

\* the second invocation returned several chunks, created later than the first
C9_Witness ==
    /\ Returned
    /\ run = 2
    /\ Len(chunks) >= 2
    /\ chunks[1].CreatedAt > prev[1].CreatedAt

\* C10: FindBestSplitPoint(text, pos) is in (0, pos] when pos < len(text), and
\* is len(text) when pos >= len(text).
C10_SplitPointBound ==
    pc = "splitdone" =>
        IF splitCall[1] < ContentLen
        THEN 0 < splitCall[2] /\ splitCall[2] <= splitCall[1]
        ELSE splitCall[2] = ContentLen

\* headings ordered by position
Ordered(hs) == \A i \in 1..(Len(hs) - 1) : hs[i].Position <= hs[i + 1].Position

\* the headings strictly before pos none of whose successors before pos is at
\* the same or a smaller level: the chain of open sections at pos
Ancestors(hs, pos) ==
    {i \in 1..Len(hs) :
        /\ hs[i].Position < pos
        /\ \A j \in (i + 1)..Len(hs) :
               hs[j].Position < pos => hs[j].Level > hs[i].Level}

\* the elements of a set of indices, in increasing order
InOrder(S) ==
    [k \in 1..Cardinality(S) |->
        CHOOSE i \in S : Cardinality({j \in S : j < i}) = k - 1]

\* C11: for headings ordered by position, GetHeadingContext(headings,
\* position) is the chain of ancestors among the headings strictly before
\* position, outermost first: the texts of those headings that no later
\* heading before position has popped (one of the same or a smaller level);
\* a heading at position itself is left out, and position 0 gives the empty
\* context.
C11_AncestorChain ==
    (pc = "contextdone" /\ Ordered(headings)) =>
        /\ context = [k \in 1..Cardinality(Ancestors(headings, position)) |->
                         headings[InOrder(Ancestors(headings, position))[k]].Text]
        /\ position = 0 => context = <<>>

\* three ordered headings: the second popped by the third, which lies before
\* position, or left out because it lies at position
C11_Witness ==
    /\ pc = "contextdone"
    /\ Ordered(headings)
    /\ Len(headings) = 3
    /\ headings[1].Level < headings[3].Level
    /\ headings[2].Level >= headings[3].Level
    /\ headings[3].Position = position
    /\ headings[2].Position < position
    /\ Len(context) = 2

\* the offsets at which a line of the content starts
LineStarts(content) ==
    {0} \cup {i + 1 : i \in {j \in 0..(Len(content) - 1) : At(content, j) = NL}}

\* the line that starts at offset p, without its newline
LineAt(content, p) ==
    LET ends == {i \in p..(Len(content) - 1) : At(content, i) = NL}
    IN  Slice(content, p, IF ends = {} THEN Len(content) ELSE MinOf(ends))

\* the line, trimmed, is k hashes, whitespace, and text that is not blank
IsHeadingLine(line, k) ==
    LET t == TrimSpace(line)
    IN  /\ Len(t) > k + 1
        /\ \A i \in 1..k : t[i] = "#"
        /\ IsSpace(t[k + 1])

\* C12: ExtractHeadings returns, in document order, one entry per line that
\* after trimming is 1 to 6 hashes, whitespace and non-empty text: its level
\* is the number of hashes, its text the trimmed rest, its position the offset
\* at which the line starts in the content (so positions increase strictly and
\* content[position:] begins with the line); no other line gives an entry.
C12_HeadingEntries ==
    pc = "extractdone" =>
        /\ \A i \in 1..Len(headings) :
               LET h == headings[i]
                   line == LineAt(args.content, h.Position)
               IN  /\ h.Position \in LineStarts(args.content)
                   /\ h.Level \in 1..6
                   /\ IsHeadingLine(line, h.Level)
                   /\ h.Text = TrimSpace(SubSeq(TrimSpace(line), h.Level + 1,
                                                Len(TrimSpace(line))))
                   /\ h.Text # <<>>
        /\ \A i \in 1..(Len(headings) - 1) :
               headings[i].Position < headings[i + 1].Position
        /\ \A p \in LineStarts(args.content) :
               (\E k \in 1..6 : IsHeadingLine(LineAt(args.content, p), k))
                   => \E i \in 1..Len(headings) : headings[i].Position = p

\* headings were found on lines that do not start the document, one of them
\* indented, next to lines of hashes that are no heading
C12_Witness ==
    /\ pc = "extractdone"
    /\ Len(headings) = 2
    /\ headings[1].Position = 0
    /\ At(args.content, 0) = SP
    /\ headings[2].Position > 0
    /\ headings[2].Level = 2
    /\ Cardinality(LineStarts(args.content)) > 2

\* the value the priority flag > environment > default picks
Picked(cli, envValue, default) ==
    CASE Len(cli) # 0 -> cli
      [] Len(cli) = 0 /\ Len(envValue) # 0 -> envValue
      [] Len(cli) = 0 /\ Len(envValue) = 0 -> default

\* C18: GetConfig resolves each of the four settings on its own with the
\* priority flag > environment variable > default: the flag when it is not
\* empty, else the variable when it is not empty, else the default, "local"
\* for the embedding mode.  The value picked for the mode is used in lower
\* case, the one picked for the database path as an absolute path (as it is
\* when the working directory cannot be read).
C18_Priority ==
    pc = "configdone" =>
        /\ config.EmbeddingMode =
               ToLower(Picked(IF flags.modeGiven THEN flags.embeddingMode ELSE <<>>,
                              env.embeddingMode, <<"l", "o", "c", "a", "l">>))
        /\ config.OllamaURL =
               Picked(flags.ollamaURL, env.ollamaURL, "http://localhost:11434/api/embeddings")
        /\ config.EmbeddingModel =
               Picked(flags.embeddingModel, env.embeddingModel, "nomic-embed-text")
        /\ config.DBPath \in
               {Picked(flags.dbPath, env.dbPath, DefaultDBPath),
                Abs(Picked(flags.dbPath, env.dbPath, DefaultDBPath))}
        /\ (flags.dbPath # <<>> /\ IsAbsPath(flags.dbPath)) => config.DBPath = flags.dbPath

\* every setting came from another source: the mode from the flag although
\* the variable is set, the URL from the variable, the model from the default
C18_Witness ==
    /\ pc = "configdone"
    /\ flags.modeGiven
    /\ flags.embeddingMode = <<"L", "o", "c", "a", "l">>
    /\ env.embeddingMode # <<>>
    /\ config.EmbeddingMode = EmbeddingModeLocal
    /\ flags.ollamaURL = ""
    /\ config.OllamaURL = "http://env:5678"
    /\ config.EmbeddingModel = "nomic-embed-text"
    /\ flags.dbPath # <<>>
    /\ env.dbPath # <<>>
    /\ ~IsAbsPath(flags.dbPath)
    /\ IsAbsPath(config.DBPath)

\* the attempts made for the chunk of index i
AttemptsOf(i) == {k \in 1..Len(attempts) : attempts[k][1] = i}

\* the chunk of index i failed every attempt it is allowed
Exhausted(i) ==
    /\ Cardinality(AttemptsOf(i)) = (IF config.EmbeddingMode = EmbeddingModeLocal THEN 1 ELSE 3)
    /\ \A k \in AttemptsOf(i) : ~attempts[k][2]

\* C17: BatchEmbedChunks fails fast.  The chunks are embedded in list order,
\* each with at most maxRetries attempts (3, or 1 in local mode), none after
\* its first success; when a chunk has failed all its attempts the call
\* returns an error naming that chunk's id and no embeddings, and no later
\* chunk is attempted; when no chunk fails, the returned map holds an
\* embedding for every chunk id.
C17_FailFast ==
    /\ \A k \in 1..(Len(attempts) - 1) :
           \/ attempts[k + 1][1] = attempts[k][1] /\ ~attempts[k][2]
           \/ attempts[k + 1][1] = attempts[k][1] + 1 /\ attempts[k][2]
    /\ attempts # <<>> => attempts[1][1] = 0
    /\ \A i \in 0..(Len(chunks) - 1) :
           Cardinality(AttemptsOf(i)) <=
               (IF config.EmbeddingMode = EmbeddingModeLocal THEN 1 ELSE 3)
    /\ pc = "batchdone" =>
           /\ ret.kind \in {"ok", "error"}
           /\ ret.kind = "error" <=> \E i \in 0..(Len(chunks) - 1) : Exhausted(i)
           /\ ret.kind = "error" =>
                  /\ DOMAIN ret = {"kind", "chunk", "retries"}
                  /\ \E i \in 0..(Len(chunks) - 1) :
                         /\ Exhausted(i)
                         /\ ret.chunk = chunks[i + 1].ID
                         /\ \A k \in 1..Len(attempts) : attempts[k][1] <= i
           /\ ret.kind = "ok" =>
                  /\ \A i \in 1..Len(chunks) : chunks[i].ID \in DOMAIN ret.embeddings
                  /\ DOMAIN ret.embeddings = {chunks[i].ID : i \in 1..Len(chunks)}

\* the first chunk was embedded on its third attempt, the second one failed
\* three times, the third one was never tried
C17_Witness ==
    /\ pc = "batchdone"
    /\ Len(chunks) = 3
    /\ ret.kind = "error"
    /\ ret.chunk = chunks[2].ID
    /\ Len(attempts) = 6
    /\ attempts[3] = <<0, TRUE>>
    /\ AttemptsOf(2) = {}

\* the headings a pass starting at st may cut at: position in
\* (st + maxChunkChars/2, st + maxChunkChars]
Qualifying(st) ==
    {i \in 1..Len(headings) :
        /\ 2 * headings[i].Position > 2 * st + maxChunkChars
        /\ headings[i].Position <= st + maxChunkChars}

\* the heading of smallest level among them, the earliest one on a tie
Preferred(st) ==
    CHOOSE i \in Qualifying(st) :
        \A j \in Qualifying(st) :
            \/ headings[i].Level < headings[j].Level
            \/ headings[i].Level = headings[j].Level /\ i <= j

\* C20: heading-preferred cut: in a pass through the loop, if some heading
\* has its position in (start + maxChunkChars/2, idealEnd], the cut is at the
\* position of the heading of smallest level there (the earliest on a tie)
\* whatever FindBestSplitPoint would say; FindBestSplitPoint is called when no
\* heading qualifies.  The heading may lie exactly at idealEnd.
C20_HeadingPreferredCut ==
    (pc \in {"loop", "done"} /\ cut # <<>>) =>
        IF Qualifying(cut[1]) # {}
        THEN cut[2] = headings[Preferred(cut[1])].Position
        ELSE splitCall # <<>>

\* the cut left the heading at idealEnd for an earlier sentence end
C20_CutBeforeHeading ==
    /\ pc \in {"loop", "done"}
    /\ cut # <<>>
    /\ Qualifying(cut[1]) # {}
    /\ cut[2] < headings[Preferred(cut[1])].Position
    /\ chunks # <<>>
    /\ LastChunk.EndOffset = cut[2]

AlnumAt(t, i) == IsLetter(t[i]) \/ IsDigit(t[i])

\* the maximal runs of letters and digits of t, as <<first, last>> index pairs
MaximalRuns(t) ==
    {r \in (1..Len(t)) \X (1..Len(t)) :
        /\ r[1] <= r[2]
        /\ \A k \in r[1]..r[2] : AlnumAt(t, k)
        /\ r[1] = 1 \/ ~AlnumAt(t, r[1] - 1)
        /\ r[2] = Len(t) \/ ~AlnumAt(t, r[2] + 1)}

\* the runs longer than one character that are no stop words
KeptRuns(t) ==
    {r \in MaximalRuns(t) :
        /\ r[2] - r[1] + 1 > 1
        /\ Str(SubSeq(t, r[1], r[2])) \notin StopWords}

\* the kept runs in order of occurrence
RunsInOrder(t) ==
    [k \in 1..Cardinality(KeptRuns(t)) |->
        LET r == CHOOSE q \in KeptRuns(t) :
                     Cardinality({o \in KeptRuns(t) : o[1] < q[1]}) = k - 1
        IN  SubSeq(t, r[1], r[2])]

\* C16: tokenize returns the maximal runs of letters and digits of the
\* lower-cased text, in order of occurrence, without the runs of one character
\* or less and without the stop words; no returned token is a stop word, is one
\* character long or shorter, or holds an upper-case or non-alphanumeric
\* character.
C16_TokenizeRuns ==
    pc = "tokenized" =>
        /\ tokens = RunsInOrder(ToLower(text))
        /\ \A i \in 1..Len(tokens) :
               /\ Str(tokens[i]) \notin StopWords
               /\ Len(tokens[i]) > 1
               /\ \A k \in 1..Len(tokens[i]) :
                      /\ AlnumAt(tokens[i], k)
                      /\ ToLowerChar(tokens[i][k]) = tokens[i][k]

C14_Deterministic ==
    pc = "returned" /\ call = 2 => result = first.result

\* two calls that visited the terms in different orders and summed to
\* different accumulators
C14_Witness ==
    /\ pc = "returned"
    /\ call = 2
    /\ first.taken # taken
    /\ first.vector # vector
    /\ result = first.result

\* the second call on the seven long tokens returned another vector than the
\* first: the component at index 174 differs
C14_OrderChangesResult ==
    /\ pc = "returned"
    /\ call = 2
    /\ text = LongTermsText
    /\ result # first.result
    /\ result[175] # first.result[175]

\* the lowest exponent among the components of v that are not 0
LowestExponent(v) ==
    CHOOSE e \in {v[i].e : i \in {j \in DOMAIN v : v[j] # FZero}} :
        \A i \in DOMAIN v : v[i] # FZero => e <= v[i].e

\* the sum of v[i]^2 / 2^(2 * low) over the components lo to hi, exactly
RECURSIVE SquareSum(_, _, _, _)
SquareSum(v, low, lo, hi) ==
    IF lo = hi
    THEN BigShl(BigMul(v[lo].m, v[lo].m), 2 * (v[lo].e - low))
    ELSE Only({BigAdd(a, b) :
                  a \in {SquareSum(v, low, lo, (lo + hi) \div 2)},
                  b \in {SquareSum(v, low, (lo + hi) \div 2 + 1, hi)}})

\* tolerance^2 * (1 - 1/tolerance)^2 <= tolerance^2 * |v|^2 <= tolerance^2 *
\* (1 + 1/tolerance)^2, all three scaled by 1 / 2^(2 * low)
NormWithin(v, tolerance) ==
    LET low == LowestExponent(v)
        big == BigOfInt(tolerance)
    IN  Only({/\ BigCmp(BigShl(BigMul(BigOfInt(tolerance - 1), BigOfInt(tolerance - 1)), 0 - 2 * low), scaled) <= 0
              /\ BigCmp(scaled, BigShl(BigMul(BigOfInt(tolerance + 1), BigOfInt(tolerance + 1)), 0 - 2 * low)) <= 0 :
                 scaled \in {BigMul(BigMul(big, big), SquareSum(v, low, 1, Len(v)))}})

\* C15: for every text with at least one token the returned vector has
\* Euclidean norm 1 within 1e-6, and the accumulated feature vector is not all
\* zeros: the signed contributions to a bucket never cancel completely.
C15_UnitNorm ==
    pc = "returned" /\ tokens # <<>> =>
        /\ \E i \in DOMAIN vector : vector[i] # FZero
        /\ \E i \in DOMAIN result : result[i] # FZero
        /\ NormWithin(result, 1000000)

\* "ahq": the token and its 3-gram have the same secondary bucket, 44, and both
\* subtract from it
C15_Witness ==
    /\ pc = "returned"
    /\ text = <<"a", "h", "q">>
    /\ tokens = <<text>>
    /\ BigModSmall(hashString(Bytes(text), 1), 384) = 44
    /\ BigModSmall(hashString(<<35>> \o Bytes(text) \o <<35>>, 1), 384) = 44
    /\ vector[45] = F64Sub(F64Neg(FHalf), F64Mul(NgramFactor, FHalf))
    /\ NormWithin(result, 1000000)
    /\ ~NormWithin(result, 1000000000)

\* C19: the core operations share no mutable state: under every interleaving of
\* two concurrent invocations each one gives back what it can give back when
\* run alone (the chunks but for their time stamps, in the same order).
C19_Isolation ==
    \A i \in DOMAIN workers :
        Over(workers[i].frame) =>
            Outcome(workers[i].op, workers[i].frame) \in workers[i].alone

\* two ChunkDocument invocations of several chunks each are over, and the clock
\* readings of the first show that the second made a chunk in between
C19_Witness ==
    /\ pc = "go"
    /\ \A i \in DOMAIN workers :
           /\ workers[i].op = "ChunkDocument"
           /\ Over(workers[i].frame)
           /\ Len(workers[i].frame.chunks) >= 2
    /\ workers[1].frame.chunks[2].CreatedAt > workers[1].frame.chunks[1].CreatedAt + 1
    /\ Outcome("ChunkDocument", workers[1].frame) \in workers[1].alone

\* C21: ChunkDocument leaves its loop once chunkIndex exceeds the cap (1000 in
\* the source, ChunkCap here) and returns the chunks made so far: no chunk has
\* an index above the cap and the result never holds more than cap + 1 chunks.
C21_SafetyCap ==
    /\ Len(chunks) <= ChunkCap + 1
    /\ \A i \in 1..Len(chunks) : chunks[i].ChunkIndex <= ChunkCap
    /\ exit = "cap" =>
           /\ pc = "done"
           /\ chunkIndex = ChunkCap + 1
           /\ Len(chunks) = ChunkCap + 1
           /\ \A i \in 1..Len(chunks) : chunks[i].ChunkIndex = i - 1

\* a run the cap has ended, with text still ahead of start
C21_Witness ==
    /\ pc = "done"
    /\ exit = "cap"
    /\ start < Len(args.content)
    /\ Len(chunks) = ChunkCap + 1
    /\ chunks[Len(chunks)].ChunkIndex = ChunkCap

\* C22: in the multi-chunk path every chunk is at most maxChunkChars characters
\* long (EndOffset <= StartOffset + maxChunkChars) and its token estimate does
\* not exceed maxTokensPerChunk.
C22_ChunkWithinBudget ==
    exit # "single" =>
        \A i \in 1..Len(chunks) :
            /\ chunks[i].EndOffset <= chunks[i].StartOffset + maxChunkChars
            /\ chunks[i].TokenCount <= args.maxTokensPerChunk

\* "aa a" with room for 2 characters: the first chunk is "aa ", 3 tokens
C22_ChunkOverBudget ==
    /\ pc = "done"
    /\ args.content = <<"a", "a", SP, "a">>
    /\ args.maxTokensPerChunk = 2
    /\ maxChunkChars = 2
    /\ chunks[1].StartOffset = 0
    /\ chunks[1].EndOffset = 3
    /\ chunks[1].TokenCount = 3

\* the indexes of the window of a rule, the characters from targetPosition back,
\* at which the rule has a match
WindowMatches(rule, t, target, window) ==
    {i \in 0..target : i > target - window /\ Matches(rule, t, i)}

\* the cut a rule makes at its match nearest to targetPosition
RuleCut(rule, t, target, window) ==
    LET i == MaxOf(WindowMatches(rule, t, target, window))
    IN  IF rule = "paragraph" THEN i ELSE i + 1

\* C23: FindBestSplitPoint takes the first rule, in the order sentence end (200
\* characters), paragraph break (300), line break (100), word boundary (50),
\* that has a match within its window, at the match nearest to targetPosition,
\* and cuts at targetPosition when no rule has one; a later rule decides only
\* when no earlier rule has a match in its own window.
C23_RulePrecedence ==
    pc = "splitdone" /\ splitCall[1] < ContentLen =>
        LET t == args.content
            target == splitCall[1]
        IN  splitCall[2] =
                IF WindowMatches("sentence", t, target, SentenceWindow) # {}
                THEN RuleCut("sentence", t, target, SentenceWindow)
                ELSE IF WindowMatches("paragraph", t, target, ParagraphWindow) # {}
                THEN RuleCut("paragraph", t, target, ParagraphWindow)
                ELSE IF WindowMatches("line", t, target, LineWindow) # {}
                THEN RuleCut("line", t, target, LineWindow)
                ELSE IF WindowMatches("word", t, target, WordWindow) # {}
                THEN RuleCut("word", t, target, WordWindow)
                ELSE target

\* ". aa" cut near 3: the sentence end at index 0 is passed over and the word
\* boundary decides
C23_SentenceEndPassedOver ==
    /\ pc = "splitdone"
    /\ args.content = <<".", SP, "a", "a">>
    /\ splitCall = <<3, 2>>

\* C24: when the paragraph-break rule decides (no sentence end in its window,
\* two newlines in a row within the 300 characters before targetPosition), the
\* offset returned is the index of the first newline of the pair, and the text
\* before the cut holds neither newline of the pair.
C24_CutAtFirstNewline ==
    pc = "splitdone" /\ splitCall[1] < ContentLen =>
        LET t == args.content
            target == splitCall[1]
            pairs == {i \in 0..(target - 1) :
                         i >= target - ParagraphWindow /\ At(t, i) = NL /\ At(t, i + 1) = NL}
        IN  WindowMatches("sentence", t, target, SentenceWindow) = {} /\ pairs # {} =>
                /\ splitCall[2] \in pairs
                /\ splitCall[2] = MaxOf(pairs)

\* "a\n\na" cut near 3: the cut is at 2, the second newline, and the text
\* before it ends with the first
C24_CutAtSecondNewline ==
    /\ pc = "splitdone"
    /\ args.content = <<"a", NL, NL, "a">>
    /\ splitCall = <<3, 2>>
    /\ At(args.content, 1) = NL
    /\ At(args.content, splitCall[2] - 1) = NL

\* C25: the headingPath of every chunk ChunkDocument returns is
\* GetHeadingContext(ExtractHeadings(content), startOffset): texts of headings
\* located strictly before the start of the chunk, the innermost being the last
\* heading before the start; a chunk that starts at a heading does not list
\* it, and the chunk of the single-chunk path has an empty path.
C25_HeadingPath ==
    \A i \in 1..Len(chunks) :
        LET c == chunks[i]
            hs == ExtractHeadings(args.content)
            before == {k \in 1..Len(hs) : hs[k].Position < c.StartOffset}
        IN  /\ c.HeadingPath = GetHeadingContext(hs, c.StartOffset)
            /\ \A j \in 1..Len(c.HeadingPath) :
                   \E k \in before : hs[k].Text = c.HeadingPath[j]
            /\ before # {} =>
                   /\ c.HeadingPath # <<>>
                   /\ c.HeadingPath[Len(c.HeadingPath)] = hs[MaxOf(before)].Text
            /\ before = {} => c.HeadingPath = <<>>
            /\ exit = "single" => c.StartOffset = 0 /\ c.HeadingPath = <<>>

\* a chunk cut at a heading: it starts at the heading, with an earlier heading
\* as its whole path
C25_Witness ==
    /\ pc = "done"
    /\ \E i \in 1..Len(chunks) : \E k \in 1..Len(headings) :
           /\ k > 1
           /\ headings[k].Position = chunks[i].StartOffset
           /\ chunks[i].HeadingPath # <<>>
           /\ \A j \in 1..Len(chunks[i].HeadingPath) :
                  chunks[i].HeadingPath[j] # headings[k].Text

\* the three families of feature strings GetLocalEmbedding hashes for tokens
WordFeatures == {Bytes(tokens[i]) : i \in 1..Len(tokens)}

TrigramFeatures ==
    UNION {{Ngram(w, i) : i \in 0..(Len(w) - 3)} : w \in WordFeatures}

BigramFeatures ==
    {Bigram(TokenBytes(tokens), i) : i \in 0..(Len(tokens) - 2)}

HasByte(s, b) == \E i \in 1..Len(s) : s[i] = b

\* C26: the 3-gram features ("#" + 3 bytes + "#"), the whole-word features (the
\* tokens) and the bigram features (token + "_" + token) of a text are pairwise
\* disjoint, because a token holds letters and digits only: no token holds a
\* "#" or a "_", every 3-gram feature starts with "#" and holds no "_", and
\* every bigram feature holds a "_" and starts with no "#".
C26_FeatureFamiliesDisjoint ==
    pc = "tokenized" =>
        /\ TrigramFeatures \cap WordFeatures = {}
        /\ TrigramFeatures \cap BigramFeatures = {}
        /\ BigramFeatures \cap WordFeatures = {}
        /\ \A w \in WordFeatures : ~HasByte(w, 35) /\ ~HasByte(w, 95)
        /\ \A g \in TrigramFeatures : g[1] = 35 /\ ~HasByte(g, 95) /\ Len(g) = 5
        /\ \A b \in BigramFeatures : HasByte(b, 95) /\ b[1] # 35

\* "ab_cd ab cd": the tokens ab, cd, ab, cd; "ab_cd", in the text, is a bigram
\* feature and no token; "#abc# abc": "#abc#" is a 3-gram feature and no token
C26_Witness ==
    /\ pc = "tokenized"
    /\ \/ /\ text = <<"a", "b", "_", "c", "d", SP, "a", "b", SP, "c", "d">>
          /\ <<97, 98, 95, 99, 100>> \in BigramFeatures \ WordFeatures
          /\ Len(tokens) = 4
       \/ /\ text = <<"#", "a", "b", "c", "#", SP, "a", "b", "c">>
          /\ <<35, 97, 98, 99, 35>> \in TrigramFeatures \ WordFeatures
          /\ Len(tokens) = 2

\* the IDs of the documents IndexDocuments adds for a file of this content
EntryIDs(content) ==
    IF EstimateTokenCount(content, IndexParams[3]) > IndexParams[1]
    THEN LET list == ChunkRun(ChunkFrame(IndexArgs(<<>>, content)), 0).chunks
         IN  {list[i].ID : i \in 1..Len(list)}
    ELSE {Sha256Hex(content)}

\* C27: when the embedding of a file fails in IndexDocuments (BatchEmbedChunks
\* for a large file), no document of that file is added to the collection, the
\* loop goes on with the files that remain, whose documents are added, and the
\* database is written at the end: the file created holds the collection.
C27_FailureIsolated ==
    /\ \A i \in 1..Len(warnings) :
           \A d \in collection : d.Metadata.file_path = warnings[i] => d \in loaded
    /\ \A i \in 1..fileIdx :
           (\A j \in 1..Len(warnings) : warnings[j] # mdFiles[i]) =>
               \A id \in EntryIDs(disk[mdFiles[i]]) : \E d \in collection : d.ID = id
    /\ pc \in {"saved", "error"} => fileIdx = Len(mdFiles)
    /\ pc = "saved" => dbFile = Exported(collection)

\* the embedding of the chunks of "/a.md" failed, "/b.MD", of another content,
\* was indexed after it, and the database was saved with its documents only
C27_Witness ==
    /\ pc = "saved"
    /\ indexRun = 1
    /\ warnings = <<WalkOrder[1]>>
    /\ disk[WalkOrder[1]] = SubHeadingDoc
    /\ disk[WalkOrder[2]] = SentenceHeadingDoc
    /\ dbFile.documents # {}
    /\ {d.ID : d \in dbFile.documents} = EntryIDs(SentenceHeadingDoc)
    /\ \A d \in dbFile.documents : d.Metadata.file_path = WalkOrder[2]

\* C30: IndexDocuments adds or replaces documents keyed by the hash of the
\* content (fileHash for a file that is not chunked, fileHash_index for a chunk)
\* and deletes no document of the database it loaded: the documents of an
\* earlier content of a file stay in the saved database next to those of its
\* new content, and two files of the same content share their IDs.
C30_NoEntryDeleted ==
    /\ pc \in {"files", "saved", "error"} =>
           \A d \in loaded : \E e \in collection : e.ID = d.ID
    /\ pc = "saved" =>
           \A d \in loaded : \E e \in dbFile.documents : e.ID = d.ID
    /\ \A d \in collection, e \in collection : d.ID = e.ID => d = e
    /\ \A d \in collection :
           /\ d.ID = IF d.Metadata.is_chunk = "true"
                     THEN d.Metadata.file_hash \o "_" \o d.Metadata.chunk_index
                     ELSE d.Metadata.file_hash
           /\ d \notin loaded =>
                  \E i \in 1..fileIdx :
                      /\ d.Metadata.file_path = mdFiles[i]
                      /\ d.Metadata.file_hash = Sha256Hex(disk[mdFiles[i]])
                      /\ d.ID \in EntryIDs(disk[mdFiles[i]])

\* the second run, after both files were given the content "a": the saved
\* database holds the documents of the earlier contents, which no file has any
\* more, and the one document the two files share
C30_Witness ==
    /\ pc = "saved"
    /\ indexRun = 2
    /\ warnings = <<>>
    /\ disk[WalkOrder[1]] = <<"a">>
    /\ disk[WalkOrder[2]] = <<"a">>
    /\ {d.ID : d \in loaded} = EntryIDs(SubHeadingDoc) \cup EntryIDs(SentenceHeadingDoc)
    /\ {d.ID : d \in dbFile.documents} =
           EntryIDs(SubHeadingDoc) \cup EntryIDs(SentenceHeadingDoc) \cup {Sha256Hex(<<"a">>)}
    /\ Cardinality(dbFile.documents) = Cardinality(loaded) + 1

\* C28: for a file that exists and any offsets, given or not, negative, beyond
\* the end of the file or start after end, MCPRetrieveFileContent returns
\* without error content[s:e], with e the end offset brought into
\* [0, len(content)] (len(content) when not given), and s the start offset
\* brought into it (0 when not given) and lowered to e when above it; with the
\* offsets of a chunk of the file, it returns the content of the chunk.
C28_RetrieveRange ==
    pc = "retrieved" /\ request.filePath \in DOMAIN disk =>
        LET content == disk[request.filePath]
            n == Len(content)
            e == IF ~request.endOffset.given THEN n
                 ELSE Max(0, Min(n, request.endOffset.value))
            s == IF ~request.startOffset.given THEN Min(0, e)
                 ELSE Min(e, Max(0, Min(n, request.startOffset.value)))
        IN  /\ response.err = "nil"
            /\ Len(response.content) = e - s
            /\ \A k \in 1..(e - s) : response.content[k] = content[s + k]
            /\ \A i \in 1..Len(chunks) :
                   /\ request.startOffset = OffsetTo(chunks[i].StartOffset)
                   /\ request.endOffset = OffsetTo(chunks[i].EndOffset)
                   => response.content = chunks[i].Content

\* "a.\n# a" asked for from beyond its end to 2: the start is lowered to the
\* end and nothing is returned, without error
C28_Witness ==
    /\ pc = "retrieved"
    /\ disk[RetrievePath] = SentenceHeadingDoc
    /\ request = [filePath |-> RetrievePath, startOffset |-> OffsetTo(8),
                  endOffset |-> OffsetTo(2)]
    /\ response = [content |-> <<>>, err |-> "nil"]

\* the second chunk of a file asked for by its offsets
C28_ChunkRetrieved ==
    /\ pc = "retrieved"
    /\ Len(chunks) >= 2
    /\ request.startOffset = OffsetTo(chunks[2].StartOffset)
    /\ request.endOffset = OffsetTo(chunks[2].EndOffset)
    /\ chunks[2].StartOffset > 0
    /\ response.content = chunks[2].Content
    /\ response.content # <<>>

\* the results of a list that are equal to r, counted
CountIn(list, r) == Cardinality({i \in 1..Len(list) : list[i] = r})

\* the best score among the chunks of a file of the result
BestScore(file) == MaxOf({file.Chunks[i].Similarity : i \in 1..Len(file.Chunks)})

\* every result is in one group, that of its file path, and the chunks of a
\* group are in the order of their start offsets
GroupedByFile ==
    /\ \A i \in 1..Len(fileResults) : \A j \in 1..Len(fileResults) :
           fileResults[i].FilePath = fileResults[j].FilePath => i = j
    /\ \A i \in 1..Len(fileResults) :
           /\ fileResults[i].Chunks # <<>>
           /\ \A k \in 1..Len(fileResults[i].Chunks) :
                  /\ fileResults[i].Chunks[k].FilePath = fileResults[i].FilePath
                  /\ CountIn(fileResults[i].Chunks, fileResults[i].Chunks[k])
                         = CountIn(results, fileResults[i].Chunks[k])
           /\ \A k \in 1..(Len(fileResults[i].Chunks) - 1) :
                  fileResults[i].Chunks[k].StartOffset
                      <= fileResults[i].Chunks[k + 1].StartOffset
    /\ \A k \in 1..Len(results) :
           \E i \in 1..Len(fileResults) :
               /\ fileResults[i].FilePath = results[k].FilePath
               /\ \E j \in 1..Len(fileResults[i].Chunks) : fileResults[i].Chunks[j] = results[k]

\* C29: groupResultsByFile puts every result in exactly one group, that of its
\* file path, returns the files by descending best score, the highest
\* Similarity among the results of the file, and the chunks of each file by
\* ascending StartOffset.
C29_FilesByBestScore ==
    pc = "grouped" =>
        /\ GroupedByFile
        /\ \A i \in 1..(Len(fileResults) - 1) :
               BestScore(fileResults[i]) >= BestScore(fileResults[i + 1])

\* b.md, whose one chunk has score 2, comes before a.md, whose chunks have the
\* scores 1 (at offset 0) and 3 (at offset 5)
C29_BestFileSecond ==
    /\ pc = "grouped"
    /\ results =
           <<[FilePath |-> "/docs/a.md", Similarity |-> 3, IsChunk |-> TRUE, StartOffset |-> 5],
             [FilePath |-> "/docs/b.md", Similarity |-> 2, IsChunk |-> TRUE, StartOffset |-> 0],
             [FilePath |-> "/docs/a.md", Similarity |-> 1, IsChunk |-> TRUE, StartOffset |-> 0]>>
    /\ fileResults =
           <<[FilePath |-> "/docs/b.md", Chunks |-> <<results[2]>>],
             [FilePath |-> "/docs/a.md", Chunks |-> <<results[3], results[1]>>]>>

\* the grouping and the order of the chunks are as said
C29_Grouped == pc = "grouped" => GroupedByFile

\* within ChunkDocument: a loop pass was cut off only when it made no progress
IterBoundUnused == iters = MaxIters => maxChunkChars = 0

NoPanic == pc # "panic"

NextStartExitUnused == exit # "next"

=============================================================================
